---- MODULE Spec2Model ----
(***************************************************************************)
(* State-machine model of the ycELO company scraper                        *)
(* (src/unnamed/part_000): credential capture, the three Algolia index     *)
(* fetchers, the two DOM scrapers, the merge/escalation policy of main()   *)
(* and the chunked upsert into the sink; and of the voting function       *)
(* record_vote_and_update_elo (src/supabase/schema.sql) as the voting page *)
(* (src/src/pages/Vote.tsx) and other clients call it concurrently.        *)
(*                                                                         *)
(* The environment (the Algolia index, the listing page and the sink) is   *)
(* one value, `world`, chosen when the run starts; the program's steps are *)
(* then the code's own.  One action is one step of main(): a call it       *)
(* awaits, run to its return or throw, a test it branches on, a merge, one *)
(* chunk of the upsert.  A callee's loop is a step operator (one turn of   *)
(* the loop on the callee's locals) that the call runs turn after turn.    *)
(***************************************************************************)
EXTENDS Integers, Sequences, FiniteSets, TLC

VARIABLES
  world,       \* the environment of this run (index content, page, sink)
  pc,          \* position of main()
  creds,       \* main: const creds
  companies,   \* main: let companies: Company[]
  letterSet,   \* main: const letterSet
  bigramSet,   \* main: const bigramSet
  domSet,      \* main: const domSet
  fetch,       \* locals of the index fetcher main() called last
  acc,         \* window.__ycCompanies of the page (NoAcc until created)
  page,        \* state of the browser page (scroll position, search box)
  sp,          \* locals of scrapePage
  sq,          \* locals of scrapeByQueries
  ins,         \* locals of insertCompanies
  sink,        \* chunks the sink has accepted, in order
  exitCode,    \* process exit status (-1 while running)
  calls,       \* history: the functions main() has invoked, in order
  yields,      \* history: function name -> length of the list it returned
  cap,         \* captureAlgoliaCredentials: the promise, its closure and the timer
  companiesTable, \* public.companies: id -> committed row (status, Elo rating, games)
  votesTable,  \* public.votes: the committed rows, in commit order
  txn,         \* the calls of record_vote_and_update_elo: arguments, position, locals
  clock        \* the database server's time

scraperVars == <<world, pc, creds, companies, letterSet, bigramSet, domSet, fetch,
                 acc, page, sp, sq, ins, sink, exitCode, calls, yields, cap>>

voteVars == <<companiesTable, votesTable, txn, clock>>

vars == <<scraperVars, voteVars>>

\* The voting database while only the scraper is looked at.
VoteIdle ==
  /\ companiesTable = << >>
  /\ votesTable = << >>
  /\ txn = << >>
  /\ clock = 0

(***************************************************************************)
(* Bounds of the exploration (not program constants).                      *)
(***************************************************************************)
\* Largest page number a pagination loop is followed to.
MaxPageNum == 3
\* Largest company number of the small index and page contents.
MaxSmall == 2
\* Number of events (requests, the timer) the interceptor is followed through.
MaxEvents == 3

(***************************************************************************)
(* Program constants.                                                      *)
(***************************************************************************)
HitsPerPage == 1000
EnumerationThreshold == 2000
DomQueryThreshold == 4000
DomOnlyThreshold == 2000
ChunkSize == 500
maxIterations == 3000
StableThreshold == 20
BottomThreshold == 10
MaxSubIterations == 80
QueryStableThreshold == 5

(***************************************************************************)
(* Strings.  A string is a sequence of tokens, so that concatenation,      *)
(* startsWith('http') and the replace(/^.*\/companies\//, '') of the       *)
(* mapping are computed, not assumed.  The empty sequence is the empty     *)
(* string; an absent (undefined) property reads as the empty string too,   *)
(* because the code only ever reads these properties through `||`, `?.`    *)
(* and `??`, which treat both alike.                                       *)
(***************************************************************************)
Empty == << >>
Null == <<"<null>">>
Host == "https://www.ycombinator.com"
CompaniesPath == "/companies/"
\* Tokens that begin with the four characters "http".
HttpTokens == {Host, "https://cdn.example", "httpie"}
\* Tokens that are not made of [-a-z0-9] only.
NonSlugTokens == {Host, "https://cdn.example", CompaniesPath, "/jobs", "Acme Inc"}

Min(a, b) == IF a < b THEN a ELSE b
Max(a, b) == IF a > b THEN a ELSE b

\* JavaScript's a || b on strings.
Or(a, b) == IF a # Empty THEN a ELSE b

StartsWithHttp(s) == s # Empty /\ s[1] \in HttpTokens

\* s.replace(/^.*\/companies\//, ''): the match is greedy, so everything up
\* to and including the last "/companies/" goes; no match leaves s as it is.
StripToCompanies(s) ==
  LET at == {i \in 1..Len(s) : s[i] = CompaniesPath}
  IN IF at = {} THEN s
     ELSE LET last == CHOOSE i \in at : \A j \in at : j <= i
          IN SubSeq(s, last + 1, Len(s))

(***************************************************************************)
(* JavaScript Map: insertion-ordered, set() on a present key replaces the  *)
(* value in place.                                                         *)
(***************************************************************************)
EmptyMap == [keys |-> << >>, val |-> << >>]
MapHas(m, k) == k \in DOMAIN m.val
MapSet(m, k, v) ==
  [keys |-> IF MapHas(m, k) THEN m.keys ELSE Append(m.keys, k),
   val  |-> (k :> v) @@ m.val]
MapSize(m) == Len(m.keys)
\* Array.from(map.values())
MapValues(m) == [i \in 1..Len(m.keys) |-> m.val[m.keys[i]]]

\* for (const x of s) acc = Op(acc, x), over s[lo..hi] from left to right.
\* The range is halved only to keep the evaluation shallow: the left half is
\* folded first and its result is what the right half starts from.
RECURSIVE ForEach(_, _, _, _, _)
ForEach(Op(_, _), acc0, s, lo, hi) ==
  IF lo > hi \/ DOMAIN acc0 = {} THEN acc0
  ELSE IF lo = hi THEN Op(acc0, s[lo])
  ELSE LET mid == (lo + hi) \div 2
       IN ForEach(Op, ForEach(Op, acc0, s, lo, mid), s, mid + 1, hi)

(***************************************************************************)
(* Raw hits and Company rows.                                              *)
(***************************************************************************)
\* A hit is a record holding only the properties the index sent.
Field(h, f) == IF f \in DOMAIN h THEN h[f] ELSE Empty

\* const key = String(hit.slug || hit.permalink || hit.url || '')
HitKey(hit) ==
  Or(Field(hit, "slug"), Or(Field(hit, "permalink"), Or(Field(hit, "url"), Empty)))

\* if (!dedup.has(key)) dedup.set(key, hit)
DedupAdd(dedup, hit) ==
  IF MapHas(dedup, HitKey(hit)) THEN dedup ELSE MapSet(dedup, HitKey(hit), hit)

\* The slug the mapping reads from a hit.
HitSlug(h) ==
  Or(Field(h, "slug"), Or(Field(h, "permalink"), StripToCompanies(Field(h, "url"))))

\* const profile_url = slug.startsWith('http') ? slug : `https://www.ycombinator.com/companies/${slug}`
ProfileUrlOf(slug) ==
  IF StartsWithHttp(slug) THEN slug ELSE <<Host, CompaniesPath>> \o slug

\* The body of allHits.map(...)
HitToRow(h) ==
  [name        |-> Or(Field(h, "name"), Or(Field(h, "company_name"), Or(Field(h, "title"), Empty))),
   one_liner   |-> Or(Field(h, "tagline"), Or(Field(h, "one_liner"), Or(Field(h, "description"), Null))),
   profile_url |-> ProfileUrlOf(HitSlug(h)),
   logo_url    |-> Or(Field(h, "logo"), Or(Field(h, "logo_url"), Or(Field(h, "image"), Null))),
   yc_batch    |-> Or(Field(h, "batch"), Or(Field(h, "yc_batch"), Null)),
   website_url |-> Or(Field(h, "website"), Or(Field(h, "website_url"), Null)),
   location    |-> Or(Field(h, "location"), Or(Field(h, "location_city"), Null))]

\* .filter(r => r.name && r.profile_url)
RowKept(r) == r.name # Empty /\ r.profile_url # Empty

\* Array.from(dedup.values()).map(...).filter(...)
RowsOfHits(dedup) ==
  LET allHits == MapValues(dedup)
  IN SelectSeq([i \in 1..Len(allHits) |-> HitToRow(allHits[i])], RowKept)

\* A merge step that keeps the record a profile_url already has.
SetRowIfAbsent(m, c) == IF MapHas(m, c.profile_url) THEN m ELSE MapSet(m, c.profile_url, c)

\* A merge step on a Map created anew for every record.
SetRowAfterClear(m, c) == MapSet(EmptyMap, c.profile_url, c)

\* map.set(c.profile_url, c)
SetRow(m, c) == MapSet(m, c.profile_url, c)

\* const map = new Map(); for (const c of list) map.set(c.profile_url, c);
\* Array.from(map.values())
MergeByProfileUrl(list) == MapValues(ForEach(SetRow, EmptyMap, list, 1, Len(list)))

(***************************************************************************)
(* The Algolia index of the run (the environment of the fetchers).         *)
(*                                                                         *)
(* Its content is a list of blocks of companies lo..hi.  A block says what *)
(* each of its hits looks like (kind, tag), which `batch` facet value the  *)
(* companies carry ("" for none) and which free-text queries they match.   *)
(* The index answers a request with the requested page of the matching     *)
(* hits and the page count; `failing` are the requests it answers with a   *)
(* non-success HTTP status, and for the segments (facet values, queries)   *)
(* in `endless` it reports, for every page requested, that more follow.    *)
(***************************************************************************)
Slug(k) == <<"c" \o ToString(k)>>
CompanyName(k) == <<"Company " \o ToString(k)>>

WithTag(h, tag) == IF tag = "" THEN h ELSE h @@ [tagline |-> <<tag>>]

HitOf(kind, k, tag) ==
  WithTag(
    CASE kind = "slug"      -> [slug |-> Slug(k), name |-> CompanyName(k)]
      [] kind = "permalink" -> [permalink |-> Slug(k), company_name |-> CompanyName(k)]
      [] kind = "url"       -> [url |-> <<Host, CompaniesPath>> \o Slug(k), title |-> CompanyName(k)]
      [] kind = "relslug"   -> [slug |-> <<CompaniesPath>> \o Slug(k), name |-> CompanyName(k)]
      [] kind = "absslug"   -> [slug |-> <<Host, CompaniesPath>> \o Slug(k), name |-> CompanyName(k)]
      [] kind = "httpslug"  -> [slug |-> <<"httpie">>, name |-> CompanyName(k)]
      [] kind = "noname"    -> [slug |-> Slug(k)]
      [] kind = "noid"      -> [name |-> CompanyName(k)],
    tag)

Blk(kind, lo, hi, batch, text, tag) ==
  [kind |-> kind, lo |-> lo, hi |-> hi, batch |-> batch, text |-> text, tag |-> tag]

\* A hit of a company that carries a batch facet value holds it as `batch`.
WithBatch(h, batch) == IF batch = "" THEN h ELSE h @@ [batch |-> <<batch>>]

BlockHits(b) ==
  [i \in 1..(b.hi - b.lo + 1) |-> WithBatch(HitOf(b.kind, b.lo + i - 1, b.tag), b.batch)]

\* The params of one query() call.
FacetRequest == [query |-> "", hitsPerPage |-> 0, page |-> 0, facetFilter |-> "", facets |-> TRUE]
BatchRequest(batch, pageNum) ==
  [query |-> "", hitsPerPage |-> HitsPerPage, page |-> pageNum, facetFilter |-> batch, facets |-> FALSE]
QueryRequest(q, pageNum) ==
  [query |-> q, hitsPerPage |-> HitsPerPage, page |-> pageNum, facetFilter |-> "", facets |-> FALSE]

BlockMatches(b, req) ==
  IF req.facetFilter # "" THEN b.batch = req.facetFilter
  ELSE req.query = "" \/ req.query \in b.text

RECURSIVE Matching(_, _, _)
Matching(blocks, req, n) ==
  IF n > Len(blocks) THEN << >>
  ELSE (IF BlockMatches(blocks[n], req) THEN BlockHits(blocks[n]) ELSE << >>)
       \o Matching(blocks, req, n + 1)

Fail(q, filter, pageNum, facets) ==
  [query |-> q, facetFilter |-> filter, page |-> pageNum, facets |-> facets, rejects |-> FALSE]
Reject(q, filter, pageNum, facets) ==
  [query |-> q, facetFilter |-> filter, page |-> pageNum, facets |-> facets, rejects |-> TRUE]

\* The outcome of fetch() for one request: the index's answer, an answer
\* with a non-success status (for the requests idx.failing names with Fail),
\* or no answer at all, fetch() rejecting (for those it names with Reject).
Respond(idx, req) ==
  IF Reject(req.query, req.facetFilter, req.page, req.facets) \in idx.failing
  THEN [ok |-> FALSE, rejected |-> TRUE, hits |-> << >>, nbPages |-> 0, facets |-> << >>]
  ELSE IF Fail(req.query, req.facetFilter, req.page, req.facets) \in idx.failing
  THEN [ok |-> FALSE, rejected |-> FALSE, hits |-> << >>, nbPages |-> 0, facets |-> << >>]
  ELSE LET all == Matching(idx.blocks, req, 1)
           per == req.hitsPerPage
       IN [ok      |-> TRUE,
           rejected |-> FALSE,
           hits    |-> IF per = 0 THEN << >>
                       ELSE SubSeq(all, req.page * per + 1, Min(Len(all), (req.page + 1) * per)),
           nbPages |-> IF (req.facetFilter \o req.query) \in idx.endless THEN req.page + 2
                       ELSE IF per = 0 THEN 0 ELSE (Len(all) + per - 1) \div per,
           facets  |-> IF req.facets THEN idx.facets ELSE << >>]

Idx(facets, blocks, failing, endless) ==
  [facets |-> facets, blocks |-> blocks, failing |-> failing, endless |-> endless]

(***************************************************************************)
(* The listing page of the run (the environment of the DOM scrapers).      *)
(*                                                                         *)
(* The page lists items (anchors with their card), given as blocks like    *)
(* the index's.  `loaded` of them are in the list; a virtualised list      *)
(* (window > 0) renders only `window` items from the scroll position, a    *)
(* plain one (window = 0) all that are loaded.  One scroll step moves by   *)
(* `stride` items.  mode "finite": the list ends; a "Load more" button     *)
(* (when the page has one) or, with autoLoad, reaching the bottom, loads   *)
(* `batch` more.  mode "feed": the list never ends, every scroll moves     *)
(* and shows new items.  mode "blank": the content is finite but the       *)
(* scroll position changes on every scroll.                                *)
(***************************************************************************)
AnchorOf(kind, k, tag) ==
  WithTag(
    CASE kind = "card"  -> [href |-> <<CompaniesPath>> \o Slug(k), nameEl |-> CompanyName(k),
                            innerText |-> CompanyName(k)]
      [] kind = "text"  -> [href |-> <<CompaniesPath>> \o Slug(k), innerText |-> CompanyName(k)]
      [] kind = "blank" -> [href |-> <<CompaniesPath>> \o Slug(k)]
      [] kind = "jobs"  -> [href |-> <<CompaniesPath>> \o Slug(k) \o <<"/jobs">>,
                            innerText |-> <<"Jobs">>],
    tag)

BlockAnchors(b) == [i \in 1..(b.hi - b.lo + 1) |-> AnchorOf(b.kind, b.lo + i - 1, b.tag)]

\* The page's search box filters the list to the items matching the typed text.
BlockListed(b, query) == query = "" \/ query \in b.text

RECURSIVE Listed(_, _, _)
Listed(blocks, query, n) ==
  IF n > Len(blocks) THEN << >>
  ELSE (IF BlockListed(blocks[n], query) THEN BlockAnchors(blocks[n]) ELSE << >>)
       \o Listed(blocks, query, n + 1)

\* Number of items the list holds for the typed text (a feed has no end).
Total(dom, query) == Len(Listed(dom.blocks, query, 1))

\* document.querySelectorAll('a[href^="/companies/"]') on the page as it is.
Rendered(dom, pg) ==
  LET from == IF dom.window = 0 THEN 1 ELSE pg.scroll * dom.stride + 1
      upto == IF dom.window = 0 THEN pg.loaded ELSE Min(pg.loaded, from + dom.window - 1)
  IN IF dom.mode = "feed"
     THEN [i \in 1..(upto - from + 1) |-> AnchorOf("card", from + i - 1, "")]
     ELSE SubSeq(Listed(dom.blocks, pg.query, 1), from, upto)

\* The last scroll position of a list of n loaded items.
MaxScroll(dom, n) == (Max(0, n - dom.stride) + dom.stride - 1) \div dom.stride

\* Whether a scroll changes the scroll position.
CanScroll(dom, pg) ==
  dom.mode \in {"feed", "blank"} \/ pg.scroll < MaxScroll(dom, pg.loaded)

\* Items in the list after `more` further items were asked for.
LoadedAfter(dom, pg, more) ==
  IF dom.mode = "feed" THEN pg.loaded + more
  ELSE Min(Total(dom, pg.query), pg.loaded + more)

\* The page right after load, or after new text was typed into the search box.
FreshPage(dom, query) ==
  [scroll |-> 0, query |-> query,
   loaded |-> IF dom.mode = "feed" THEN dom.initial
              ELSE Min(Total(dom, query), dom.initial)]

\* el.scrollTop = el.scrollTop + Math.floor(window.innerHeight * 0.9): a feed
\* loads the items the new position shows.
ScrolledOnce(dom, pg) ==
  IF ~CanScroll(dom, pg) THEN pg
  ELSE [pg EXCEPT !.scroll = pg.scroll + 1,
                  !.loaded = IF dom.mode = "feed"
                             THEN Max(pg.loaded, (pg.scroll + 1) * dom.stride + Max(dom.window, dom.stride))
                             ELSE pg.loaded]

\* loadMore.first().isVisible()
LoadMoreVisible(dom, pg) ==
  dom.button /\ dom.mode # "feed" /\ pg.loaded < Total(dom, pg.query)

\* window.scrollTo(0, document.body.scrollHeight), and what the page loads on
\* reaching its bottom.
ScrolledToBottom(dom, pg) ==
  LET n == IF dom.autoLoad THEN LoadedAfter(dom, pg, dom.batch) ELSE pg.loaded
  IN [pg EXCEPT !.loaded = n, !.scroll = MaxScroll(dom, n)]

\* const hrefRegex = /^\/companies\/[-a-z0-9]+$/i
HrefMatches(href) ==
  Len(href) = 2 /\ href[1] = CompaniesPath /\ href[2] \notin NonSlugTokens

\* The record the in-page collector builds from one anchor.
AnchorRow(a) ==
  [name        |-> Or(Field(a, "nameEl"), Or(Field(a, "innerText"), Empty)),
   one_liner   |-> Or(Field(a, "tagline"), Null),
   profile_url |-> IF StartsWithHttp(a.href) THEN a.href ELSE <<Host>> \o a.href,
   logo_url    |-> Or(Field(a, "logo"), Null),
   yc_batch    |-> Or(Field(a, "batch"), Null),
   website_url |-> Null,
   location    |-> Or(Field(a, "location"), Null)]

\* One turn of `for (const a of anchors)`: st = [seen, map].
CollectAnchor(st, a) ==
  IF ~HrefMatches(a.href) \/ a.href \in st.seen THEN st
  ELSE IF AnchorRow(a).name = Empty THEN [st EXCEPT !.seen = st.seen \cup {a.href}]
  ELSE [seen |-> st.seen \cup {a.href}, map |-> MapSet(st.map, a.href, AnchorRow(a))]

\* The in-page collector: every rendered anchor into window.__ycCompanies.
Collect(map, anchors) ==
  ForEach(CollectAnchor, [seen |-> {}, map |-> map], anchors, 1, Len(anchors)).map

Dom(blocks, window, stride, initial, batch, button, autoLoad, search, mode) ==
  [blocks |-> blocks, window |-> window, stride |-> stride, initial |-> initial,
   batch |-> batch, button |-> button, autoLoad |-> autoLoad, search |-> search,
   mode |-> mode]

(***************************************************************************)
(* The worlds a run may start in.                                          *)
(***************************************************************************)
\* captureAlgoliaCredentials resolved with null.
NoCreds == [appId |-> Empty, apiKey |-> Empty, indexName |-> Empty]
Bundle == [appId |-> <<"APPID">>, apiKey |-> <<"KEY">>, indexName |-> <<"YCCompany_production">>]

World(c, idx, dom, sinkFailsAt) ==
  [creds |-> c, index |-> idx, dom |-> dom, sinkFailsAt |-> sinkFailsAt]

ABlk(kind, lo, hi, text, tag) == [kind |-> kind, lo |-> lo, hi |-> hi, text |-> text, tag |-> tag]

NoIndex == Idx(<< >>, << >>, {}, {})

\* A plain page: every item rendered, nothing more to load.
PlainPage(blocks, search) == Dom(blocks, 0, 4, 2 * HitsPerPage, 1, FALSE, FALSE, search, "finite")
\* A virtualised page: 400 items rendered, a scroll step moves by 200.
VirtualPage(blocks, search) == Dom(blocks, 400, 200, 4 * HitsPerPage, 1, FALSE, FALSE, search, "finite")
\* A page that shows `initial` items and loads `batch` more on demand.
LoadingPage(blocks, initial, batch, button, autoLoad) ==
  Dom(blocks, 0, 1, initial, batch, button, autoLoad, TRUE, "finite")
\* An endless feed: one new item per scroll step.
FeedPage == Dom(<< >>, 1, 1, 1, 1, FALSE, TRUE, TRUE, "feed")
\* A page whose scroll position always changes over a fixed content.
BlankPage(blocks) == Dom(blocks, 0, 1, 2 * HitsPerPage, 1, FALSE, FALSE, TRUE, "blank")

\* The page used where the index is what varies: company 1 is listed and
\* matches the search text "a", company 3 is listed too.
DefaultPage ==
  PlainPage(<<ABlk("card", 1, 1, {"a"}, "dom"), ABlk("text", 3, 3, {"e"}, "dom")>>, TRUE)

HitKinds == {"slug", "permalink", "url", "relslug", "absslug", "httpslug", "noname", "noid"}

\* Small indexes: company 1 under facet W24, and a second hit of any kind of
\* company k found under the facet, by the letter a or by the bigram aa.
SmallIndexes ==
  {Idx(<<"W24">>, <<Blk("slug", 1, 1, "W24", {}, ""), b>>, {}, {}) :
     b \in {Blk(kind, k, k, place[1], place[2], "second") :
              kind \in HitKinds, k \in 1..MaxSmall,
              place \in {<<"W24", {}>>, <<"", {"a"}>>, <<"", {"aa"}>>}}}

\* Indexes whose facet discovery gives nothing, or that fail or never end.
OddIndexes ==
  LET blocks == <<Blk("slug", 1, MaxSmall, "W24", {"a", "b", "ab"}, "")>>
  IN {Idx(<< >>, blocks, {}, {}),
      Idx(<<"W24">>, blocks, {Fail("", "", 0, TRUE)}, {}),
      Idx(<<"W24">>, blocks, {Reject("", "", 0, TRUE)}, {}),
      \* company 1 under two facet values
      Idx(<<"W24", "S24">>, <<Blk("slug", 1, 1, "W24", {}, ""),
                              Blk("slug", 1, 1, "S24", {}, "second")>>, {}, {}),
      Idx(<<"W24">>, blocks, {Fail("", "W24", 0, FALSE)}, {}),
      Idx(<<"W24">>, blocks, {Fail("b", "", 0, FALSE)}, {}),
      Idx(<<"W24">>, blocks, {Fail("ab", "", 0, FALSE)}, {}),
      Idx(<<"W24">>, blocks, {}, {"W24"}),
      Idx(<<"W24">>, blocks, {}, {"b"}),
      Idx(<<"W24">>, blocks, {}, {"ab"})}

\* Indexes of thousands of companies, `n` of them under the facet values
\* (at most HitsPerPage each under W24, S24, W25, S25).
Facets4 == <<"W24", "S24", "W25", "S25">>
FacetBlocks(n) ==
  [f \in 1..4 |-> Blk("slug", (f - 1) * HitsPerPage + 1, Min(n, f * HitsPerPage), Facets4[f], {}, "")]

\* 1500 under the facets; the letter a finds 900 of them again and 300
\* more, the bigram aa 300 more.
ScenarioIndex ==
  Idx(Facets4, FacetBlocks(1500)
               \o <<Blk("slug", 601, 1800, "", {"a"}, "by letter"),
                    Blk("slug", 1801, 2100, "", {"aa"}, "by bigram")>>, {}, {})

\* An index with one company under its one facet value and three pages of
\* companies that the letter a finds.
PagedIndex ==
  Idx(<<"W24">>, <<Blk("slug", 1, 1, "W24", {}, ""),
                   Blk("slug", 2, 2 * HitsPerPage + 2, "", {"a"}, "")>>, {}, {})

LargeIndexes ==
  {Idx(Facets4, FacetBlocks(n), {}, {}) :
     n \in {EnumerationThreshold - 1, EnumerationThreshold,
            DomQueryThreshold - 1, DomQueryThreshold}}
  \cup
  \* 1999 under the facets, and the letter a finds 2000 or 2001 more
  {Idx(Facets4, FacetBlocks(EnumerationThreshold - 1)
                \o <<Blk("slug", EnumerationThreshold, DomQueryThreshold - 1 + extra, "", {"a"}, "")>>,
       {}, {}) : extra \in {0, 1}}
  \cup
  {ScenarioIndex}
  \cup
  \* 3999 under the facets, and company 1 once more through its url
  {Idx(Facets4, FacetBlocks(DomQueryThreshold - 1)
                \o <<Blk("url", 1, 1, "S25", {}, "")>>, {}, {})}

\* Pages for the runs without credentials.
SmallPages ==
  {PlainPage(<<ABlk(kind, 1, n, {"a"}, "")>>, search) :
     kind \in {"card", "text", "blank", "jobs"}, n \in 0..MaxSmall, search \in BOOLEAN}
  \cup
  {LoadingPage(<<ABlk("card", 1, MaxSmall + 1, {"a"}, "")>>, 1, 1, button, autoLoad) :
     button \in BOOLEAN, autoLoad \in BOOLEAN}
  \cup
  {PlainPage(<<ABlk("card", 1, 1, {"a"}, "first"), ABlk("text", 1, 1, {"a"}, "again")>>, TRUE)}

\* A page that shows one item and loads one more with every click on its
\* "Load more" button, often enough for more bottom hits than the threshold.
SlowPage == LoadingPage(<<ABlk("card", 1, BottomThreshold + 2, {"a"}, "")>>, 1, 1, TRUE, FALSE)

\* A page that loads one more item each time its bottom is reached, more
\* often than a query's scroll-and-count loop may turn.
GrowingPage ==
  LoadingPage(<<ABlk("card", 1, MaxSubIterations + 2, {"a"}, "")>>, 1, 1, FALSE, TRUE)

LargePages ==
  {VirtualPage(<<ABlk("card", 1, n, {}, "")>>, TRUE) :
     n \in {DomOnlyThreshold - 1, DomOnlyThreshold}}
  \cup {FeedPage, BlankPage(<<ABlk("card", 1, MaxSmall, {"a"}, "")>>), SlowPage, GrowingPage}

Worlds ==
  {World(Bundle, idx, DefaultPage, 0) : idx \in SmallIndexes \cup OddIndexes \cup LargeIndexes}
  \cup
  {World(Bundle, Idx(<< >>, << >>, {}, {}), dom, 0) : dom \in SmallPages}
  \cup
  {World(NoCreds, NoIndex, dom, 0) : dom \in SmallPages \cup LargePages}
  \cup
  \* the page lists a company the index does not hold
  {World(Bundle, ScenarioIndex, PlainPage(<<ABlk("card", DomQueryThreshold + 1,
                                                  DomQueryThreshold + 1, {"a"}, "dom")>>, TRUE), 0)}
  \cup
  \* the sink rejects the first or the second chunk
  {World(Bundle, Idx(Facets4, FacetBlocks(DomQueryThreshold), {}, {}), DefaultPage, 2),
   World(NoCreds, NoIndex, DefaultPage, 1),
   \* the sink would reject the first chunk, and nothing was found
   World(NoCreds, NoIndex, PlainPage(<< >>, TRUE), 1)}

(***************************************************************************)
(* The program.                                                            *)
(***************************************************************************)
FnCapture == "captureAlgoliaCredentials"
FnSegmented == "fetchAllFromAlgoliaSegmentedByBatch"
FnLetters == "fetchAllFromAlgoliaByLetters"
FnQueries == "fetchAllFromAlgoliaByQueries"
FnScrapePage == "scrapePage"
FnScrapeByQueries == "scrapeByQueries"
FnInsert == "insertCompanies"

NoAcc == [keys |-> << >>, val |-> << >>, absent |-> TRUE]
NoFetch == [status |-> "none", fn |-> "none", facetBatches |-> << >>, segIdx |-> 0,
            pageNum |-> 0, dedup |-> EmptyMap, nreq |-> 0, last |-> FacetRequest]
NoSp == [i |-> 0, stableIterations |-> 0, lastCollected |-> 0, bottomHits |-> 0]
NoSq == [q |-> 0, i |-> 0, stable |-> 0, lastCount |-> 0, phase |-> "none"]

\* 'abcdefghijklmnopqrstuvwxyz0123456789'.split('')
letters ==
  <<"a", "b", "c", "d", "e", "f", "g", "h", "i", "j", "k", "l", "m", "n", "o", "p", "q", "r",
    "s", "t", "u", "v", "w", "x", "y", "z", "0", "1", "2", "3", "4", "5", "6", "7", "8", "9">>

\* generateBigrams(): a + b for a of alphabet, b of alphabet.
generateBigrams ==
  [n \in 1..(Len(letters) * Len(letters)) |->
     letters[((n - 1) \div Len(letters)) + 1] \o letters[((n - 1) % Len(letters)) + 1]]

\* ['a','e','i','o','u', ...'bcdfghjklmnpqrstvwxyz'.split(''), ...'0123456789'.split('')]
domQueries ==
  <<"a", "e", "i", "o", "u", "b", "c", "d", "f", "g", "h", "j", "k", "l", "m", "n", "p", "q",
    "r", "s", "t", "v", "w", "x", "y", "z", "0", "1", "2", "3", "4", "5", "6", "7", "8", "9">>

Called(f) == \E n \in 1..Len(calls) : calls[n] = f
Returned(f) == f \in DOMAIN yields

\* A callee's loop, run from the frame x: Step is one turn of it, and a frame
\* whose status is no longer "running" has left the loop.  At most n turns
\* are taken.  The turns are split in two halves only to keep the evaluation
\* shallow: the first half runs first, the second goes on from its result.
RECURSIVE RunLoop(_, _, _)
RunLoop(Step(_), x, n) ==
  IF n <= 0 \/ x.status # "running" THEN x
  ELSE IF n = 1 THEN Step(x)
  ELSE RunLoop(Step, RunLoop(Step, x, n \div 2), n - (n \div 2))

\* Where main() goes on after a call: behind it when the call returned, to
\* the rejection of main()'s promise when it threw; a call that is still in
\* its loop where the exploration stops following it is left pending.
AfterCall(status, next) ==
  CASE status = "returned" -> next
    [] status = "threw"    -> "rejected"
    [] OTHER               -> "pending"

(***************************************************************************)
(* The index fetchers.  The three functions differ in the list of segments *)
(* they page through (the facet values found, the letters, the queries     *)
(* given) and have the same loop, mapping and filter.                      *)
(***************************************************************************)
\* The segments a fetcher iterates over.
Segments(f) ==
  CASE f.fn = FnSegmented -> f.facetBatches
    [] f.fn = FnLetters   -> letters
    [] f.fn = FnQueries   -> generateBigrams
    [] OTHER              -> << >>

\* The request for the current page of the current segment.
RequestOf(f) ==
  IF f.fn = FnSegmented THEN BatchRequest(f.facetBatches[f.segIdx], f.pageNum)
  ELSE QueryRequest(Segments(f)[f.segIdx], f.pageNum)

\* A query() that throws only when fetch() rejects.
QueryThrowsOnReject(resp) == resp.rejected

\* query(): `await fetch(...)` rejects, or `if (!res.ok) throw new Error(...)`
QueryThrows(resp) == resp.rejected \/ ~resp.ok

\* Facet discovery that takes the facet values the index has.
FacetsOfIndex(idx) == idx.facets

\* let facetBatches = []; try { ... } catch { /* ignore */ }
FacetDiscovery(idx) ==
  LET facetsResp == Respond(idx, FacetRequest)
  IN IF QueryThrows(facetsResp) THEN << >> ELSE facetsResp.facets

\* The locals on entry to the loop over the segments; with the segmented
\* fetcher, `if (facetBatches.length === 0) return []`.  nreq counts the page
\* requests the call has issued, last is the request it issued last.
StartFetch(fn, facetBatches) ==
  [status |-> IF fn = FnSegmented /\ Len(facetBatches) = 0 THEN "returned" ELSE "running",
   fn |-> fn, facetBatches |-> facetBatches, segIdx |-> 1, pageNum |-> 0, dedup |-> EmptyMap,
   nreq |-> 0, last |-> FacetRequest]

\* A test that asks for one page more than the response reports.
MorePagesUpTo(pageNum, resp) == pageNum + 1 <= resp.nbPages

\* Whether the pagination loop of a segment goes on after a response:
\* pageNum += 1; if (pageNum >= (resp.nbPages || 1)) break
MorePages(pageNum, resp) == ~(pageNum + 1 >= (IF resp.nbPages = 0 THEN 1 ELSE resp.nbPages))

\* One turn of `while (true)`: the request for the current page of the
\* current segment, its hits into dedup, and the step to the next page or
\* segment or out of both loops.  A non-success status throws out of the
\* fetcher.  The loop is followed up to page number MaxPageNum.
FetchStep(idx, f) ==
  IF f.pageNum >= MaxPageNum THEN [f EXCEPT !.status = "pending"]
  ELSE LET resp == Respond(idx, RequestOf(f))
           g == [f EXCEPT !.nreq = f.nreq + 1, !.last = RequestOf(f)]
       IN IF QueryThrows(resp) THEN [g EXCEPT !.status = "threw"]
          ELSE LET dedup == ForEach(DedupAdd, f.dedup, resp.hits, 1, Len(resp.hits))
               IN IF MorePages(f.pageNum, resp)
                  THEN [g EXCEPT !.dedup = dedup, !.pageNum = f.pageNum + 1]
                  ELSE [g EXCEPT !.dedup = dedup, !.pageNum = 0, !.segIdx = f.segIdx + 1,
                                 !.status = IF f.segIdx = Len(Segments(f))
                                            THEN "returned" ELSE "running"]

\* The loops of a fetcher from entry to the point where it returns or throws.
RunFetcher(idx, fn, facetBatches) ==
  LET Step(f) == FetchStep(idx, f)
      start == StartFetch(fn, facetBatches)
  IN RunLoop(Step, start, Len(Segments(start)) * (MaxPageNum + 1))

\* The fetcher's locals once it is left: its Map goes with a return.
Left(f) == IF f.status = "returned" THEN [f EXCEPT !.dedup = EmptyMap] ELSE f

(***************************************************************************)
(* captureAlgoliaCredentials.  A request the page sends is                 *)
(* [url, headers, postData]: the url and the body are token sequences, so  *)
(* that the test of the url and JSON.parse are computed on them.          *)
(***************************************************************************)
\* /algolia\.(net|io)\/1\/(indexes|indexes\/\*\/queries)/.test(url): the
\* pattern is not anchored, and its second alternative begins with the first.
UrlMatches(url) ==
  \E i \in 1..(Len(url) - 3) :
    /\ url[i] = "algolia" /\ url[i + 1] \in {".net", ".io"}
    /\ url[i + 2] = "/1/" /\ url[i + 3] = "indexes"

\* JSON values.  (The bodies considered hold null, strings, objects and
\* arrays; `undefined` is what reading an absent property gives.)
JUndefined == [t |-> "undefined"]
JNull == [t |-> "null"]
JStr(s) == [t |-> "str", s |-> s]
JObj(val) == [t |-> "obj", val |-> val]
JArr(items) == [t |-> "arr", items |-> items]

\* Tokens of a JSON text other than string literals; a token outside these
\* sets is a string literal with itself as content, "''" is the literal of
\* the empty string.
JsonPunctuation == {"{", "}", "[", "]", ":", ","}
NotJson == {"<html>", "undefined"}
IsStringLiteral(tok) == tok \notin JsonPunctuation \cup NotJson \cup {"null"}
LiteralText(tok) == IF tok = "''" THEN Empty ELSE <<tok>>

ParseFailed == [ok |-> FALSE, v |-> JUndefined, next |-> 0]
Parsed(v, next) == [ok |-> TRUE, v |-> v, next |-> next]
At(s, i, tok) == i <= Len(s) /\ s[i] = tok

\* JSON.parse, by recursive descent: the value that starts at token i.
RECURSIVE ParseValue(_, _), ParseMembers(_, _, _), ParseItems(_, _, _)
ParseValue(s, i) ==
  IF i > Len(s) THEN ParseFailed
  ELSE IF s[i] = "null" THEN Parsed(JNull, i + 1)
  ELSE IF s[i] = "{"
       THEN IF At(s, i + 1, "}") THEN Parsed(JObj(<< >>), i + 2)
            ELSE ParseMembers(s, i + 1, << >>)
  ELSE IF s[i] = "["
       THEN IF At(s, i + 1, "]") THEN Parsed(JArr(<< >>), i + 2)
            ELSE ParseItems(s, i + 1, << >>)
  ELSE IF IsStringLiteral(s[i]) THEN Parsed(JStr(LiteralText(s[i])), i + 1)
  ELSE ParseFailed

\* The members of an object from the key at token i on; a key given twice
\* keeps its last value.
ParseMembers(s, i, val) ==
  IF ~(i <= Len(s) /\ IsStringLiteral(s[i]) /\ At(s, i + 1, ":")) THEN ParseFailed
  ELSE LET r == ParseValue(s, i + 2)
       IN IF ~r.ok THEN ParseFailed
          ELSE IF At(s, r.next, ",") THEN ParseMembers(s, r.next + 1, (s[i] :> r.v) @@ val)
          ELSE IF At(s, r.next, "}") THEN Parsed(JObj((s[i] :> r.v) @@ val), r.next + 1)
          ELSE ParseFailed

\* The items of an array from token i on.
ParseItems(s, i, items) ==
  LET r == ParseValue(s, i)
  IN IF ~r.ok THEN ParseFailed
     ELSE IF At(s, r.next, ",") THEN ParseItems(s, r.next + 1, Append(items, r.v))
     ELSE IF At(s, r.next, "]") THEN Parsed(JArr(Append(items, r.v)), r.next + 1)
     ELSE ParseFailed

\* JSON.parse(postData): throws unless the whole text is one value.
JSONParse(s) ==
  LET r == ParseValue(s, 1)
  IN IF r.ok /\ r.next = Len(s) + 1 THEN r ELSE ParseFailed

\* !v of JavaScript on a JSON value
Falsy(v) == v.t \in {"undefined", "null"} \/ (v.t = "str" /\ v.s = Empty)

\* v[name] (v.name) for a v that is neither null nor undefined
Prop(v, name) ==
  CASE v.t = "obj" -> IF name \in DOMAIN v.val THEN v.val[name] ELSE JUndefined
    [] v.t = "arr" -> IF name = "0" /\ Len(v.items) > 0 THEN v.items[1] ELSE JUndefined
    [] OTHER       -> JUndefined

\* The text of a value where a string is expected (`${indexName}`).
ToText(v) == IF v.t = "str" THEN v.s ELSE <<"[object Object]">>

\* const first = (body.requests && body.requests[0]) || null
\* const indexName = first?.indexName
\* for a body that is not null (reading a property of null throws)
IndexNameOf(body) ==
  LET requests == Prop(body, "requests")
      first == IF Falsy(requests) THEN JNull ELSE Prop(requests, "0")
  IN IF Falsy(first) THEN JUndefined ELSE Prop(first, "indexName")

(***************************************************************************)
(* The promise, the closure variable `resolved` and the timer.             *)
(***************************************************************************)
\* captureAlgoliaCredentials before it is called
NoEvent == [kind |-> "none"]
TimeoutEvent == [kind |-> "timeout"]
NoCap == [promise |-> [state |-> "none", value |-> NoCreds], resolved |-> FALSE, timer |-> "none", count |-> 0,
          last |-> NoEvent]

\* resolve(value): only the first call settles the promise.
Resolve(promise, value) ==
  IF promise.state = "pending" THEN [state |-> "fulfilled", value |-> value] ELSE promise

\* new Promise((resolve) => { let resolved = false; setTimeout(..., 8000);
\* page.on('request', ...); void page.evaluate(...) })
StartCapture ==
  [promise |-> [state |-> "pending", value |-> NoCreds], resolved |-> FALSE,
   timer |-> "armed", count |-> 0, last |-> NoEvent]

\* if (!appId || !apiKey || !postData) return
SomethingMissing(appId, apiKey, postData) ==
  appId = Empty \/ apiKey = Empty \/ postData \in {Empty, Null}

\* The listener of page.on('request', ...) on one request; an exception
\* (JSON.parse, a property of null) ends it in the empty catch.
OnRequest(c, req) ==
  IF ~UrlMatches(req.url) THEN c
  ELSE LET appId == Field(req.headers, "x-algolia-application-id")
           apiKey == Field(req.headers, "x-algolia-api-key")
       IN IF SomethingMissing(appId, apiKey, req.postData) THEN c
          ELSE LET body == JSONParse(req.postData)
               IN IF ~body.ok \/ body.v.t = "null" THEN c
                  ELSE LET indexName == IndexNameOf(body.v)
                       IN IF Falsy(indexName) THEN c
                          ELSE IF ~c.resolved
                               THEN [c EXCEPT !.resolved = TRUE,
                                              !.timer = IF c.timer = "armed" THEN "cleared"
                                                        ELSE c.timer,
                                              !.promise = Resolve(c.promise,
                                                            [appId |-> appId, apiKey |-> apiKey,
                                                             indexName |-> ToText(indexName)])]
                               ELSE c

\* The callback of setTimeout: if (!resolved) resolve(null)
OnTimeout(c) ==
  [c EXCEPT !.timer = "fired",
            !.promise = IF ~c.resolved THEN Resolve(c.promise, NoCreds) ELSE c.promise]

\* One request of the page goes through the listener; `last` and `count`
\* record the event the closure saw last and how many it has seen.
Deliver(c, req) == [OnRequest(c, req) EXCEPT !.last = req, !.count = c.count + 1]

\* The timer fires, if it is still armed.
Elapse(c) ==
  IF c.timer = "armed" THEN [OnTimeout(c) EXCEPT !.last = TimeoutEvent, !.count = c.count + 1]
  ELSE c

(***************************************************************************)
(* The requests a page may send (a header given as Null is absent).        *)
(***************************************************************************)
Req(url, appId, apiKey, postData) ==
  [kind |-> "request", url |-> url,
   headers |-> [h \in {n \in {"x-algolia-application-id"} : appId # Null}
                       \cup {n \in {"x-algolia-api-key"} : apiKey # Null} |->
                  IF h = "x-algolia-application-id" THEN appId ELSE apiKey],
   postData |-> postData]

QueriesUrl == <<"https://", "appid-dsn.", "algolia", ".net", "/1/", "indexes", "/*/queries">>
KeysUrl == <<"https://", "appid-dsn.", "algolia", ".net", "/1/", "keys">>

\* {"requests":[{"indexName":"<name>"}]}
BodyFor(indexName) ==
  <<"{", "requests", ":", "[", "{", "indexName", ":">> \o indexName \o <<"}", "]", "}">>

Bodies ==
  {Null, Empty,
   <<"<html>">>,                                                 \* not JSON
   <<"{", "requests", ":", "[", "{", "indexName", ":">>,         \* cut short
   <<"null">>,
   <<"{", "}">>,
   <<"{", "requests", ":", "[", "]", "}">>,
   BodyFor(<<"''">>),
   BodyFor(<<"null">>),
   BodyFor(Bundle.indexName),
   <<"{", "requests", ":", "[", "{", "indexName", ":", "YC_A", "}", ",",
                                 "{", "indexName", ":", "YC_B", "}", "]", "}">>,
   <<"{", "requests", ":", "[", "{", "params", ":", "q", "}", ",",
                                 "{", "indexName", ":", "YC_B", "}", "]", "}">>}

Requests ==
  {Req(url, appId, apiKey, postData) :
     url \in {QueriesUrl, KeysUrl,
              <<"https://", "appid.", "algolia", ".io", "/1/", "indexes", "/YC/query">>},
     appId \in {Null, Empty, Bundle.appId, <<"OTHERAPP">>},
     apiKey \in {Null, Bundle.apiKey},
     postData \in Bodies}

\* The requests the page of a world sends before the window elapses: the one
\* that carries the world's credentials, or none that the listener accepts.
Traffic(c) ==
  IF c = NoCreds THEN <<Req(KeysUrl, Bundle.appId, Bundle.apiKey, Null)>>
  ELSE <<Req(KeysUrl, c.appId, c.apiKey, Null),
         Req(QueriesUrl, c.appId, c.apiKey, BodyFor(c.indexName))>>

\* The promise of captureAlgoliaCredentials, from the call to the end of the
\* window, on a page that sends `traffic`.
RunCapture(traffic) == Elapse(ForEach(Deliver, StartCapture, traffic, 1, Len(traffic)))

(***************************************************************************)
(* The DOM scrapers.  What they work on is the page and the accumulator    *)
(* window.__ycCompanies, which both outlive the call.                      *)
(***************************************************************************)
\* A page-scoped accumulator that is created whether or not one exists.
EnsureAccumulatorAnew(a) == EmptyMap

\* if (!window.__ycCompanies) window.__ycCompanies = new Map()
EnsureAccumulator(a) == IF "absent" \in DOMAIN a THEN EmptyMap ELSE a

\* A loop test that lets i = maxIterations through as well.
ScrapePageLoopGuardUpTo(i) == i <= maxIterations

\* for (let i = 0; i < maxIterations; i++)
ScrapePageLoopGuard(i) == i < maxIterations

\* Break tests that are content with one of the two counts, and with a count
\* that has only reached its threshold.
ScrapePageBreakEither(stableIterations, bottomHits) ==
  stableIterations > StableThreshold \/ bottomHits > BottomThreshold
ScrapePageBreakFrom(stableIterations, bottomHits) ==
  stableIterations >= StableThreshold /\ bottomHits >= BottomThreshold

\* if (stableIterations > 20 && bottomHits > 10) break
ScrapePageBreak(stableIterations, bottomHits) ==
  stableIterations > StableThreshold /\ bottomHits > BottomThreshold

\* scrapePage on entry to its loop: b = [status, sp, acc, page].
StartScrapePage(a, pg) ==
  [status |-> "running",
   sp |-> [i |-> 0, stableIterations |-> 0, lastCollected |-> 0, bottomHits |-> 0],
   acc |-> EnsureAccumulator(a), page |-> pg]

\* One turn of scrapePage's loop: the test of i, then collect, count, scroll,
\* click "Load more" at the bottom, wait, and the break test.
ScrapePageStep(dom, b) ==
  IF ~ScrapePageLoopGuard(b.sp.i) THEN [b EXCEPT !.status = "returned"]
  ELSE LET map == Collect(b.acc, Rendered(dom, b.page))
           collected == MapSize(map)
           stableIterations == IF collected = b.sp.lastCollected
                               THEN b.sp.stableIterations + 1 ELSE 0
           reachedBottom == ~CanScroll(dom, b.page)
           scrolled == ScrolledOnce(dom, b.page)
           bottomHits == IF reachedBottom THEN b.sp.bottomHits + 1 ELSE b.sp.bottomHits
           break == ScrapePageBreak(stableIterations, bottomHits)
       IN [status |-> IF break THEN "returned" ELSE "running",
           sp     |-> [i |-> IF break THEN b.sp.i ELSE b.sp.i + 1,
                       stableIterations |-> stableIterations,
                       lastCollected |-> collected,
                       bottomHits |-> bottomHits],
           acc    |-> map,
           page   |-> IF reachedBottom /\ LoadMoreVisible(dom, scrolled)
                      THEN [scrolled EXCEPT !.loaded = LoadedAfter(dom, scrolled, dom.batch)]
                      ELSE scrolled]

\* scrapePage's loop from entry to the point where it is left; it is followed
\* for one turn more than maxIterations allows.
RunScrapePage(dom, a, pg) ==
  LET Step(b) == ScrapePageStep(dom, b)
  IN RunLoop(Step, StartScrapePage(a, pg), maxIterations + 2)

\* A test of the search input that never finds it missing.
SearchInputNeverMissing(dom) == FALSE

\* if (await input.count() === 0) continue
SearchInputMissing(dom) == ~dom.search

\* A loop test that lets i = 80 through as well.
ScrapeByQueriesLoopGuardUpTo(i, stable) == i <= MaxSubIterations /\ stable < QueryStableThreshold

\* for (let i = 0; i < 80 && stable < 5; i++)
ScrapeByQueriesLoopGuard(i, stable) == i < MaxSubIterations /\ stable < QueryStableThreshold

\* scrapeByQueries on entry to `for (const q of queries)`: b = [status, sq,
\* acc, page]; sq.phase tells the two loops apart.
StartScrapeByQueries(a, pg) ==
  [status |-> "running",
   sq |-> [q |-> 1, i |-> 0, stable |-> 0, lastCount |-> 0, phase |-> "token"],
   acc |-> EnsureAccumulator(a), page |-> pg]

\* One step of scrapeByQueries.
\* phase "token": the next q of queries, or the return after the last;
\*   `if (await input.count() === 0) continue`, else the search box is
\*   cleared, q typed, and let stable = 0, lastCount = 0.
\* phase "scroll": one turn of the scroll-and-count loop, or, when its test
\*   fails, the extraction pass that follows it.
ScrapeByQueriesStep(dom, b) ==
  IF b.sq.phase = "token"
  THEN IF b.sq.q > Len(domQueries) THEN [b EXCEPT !.status = "returned"]
       ELSE IF SearchInputMissing(dom) THEN [b EXCEPT !.sq.q = b.sq.q + 1]
       ELSE [b EXCEPT !.page = FreshPage(dom, domQueries[b.sq.q]),
                      !.sq = [q |-> b.sq.q, i |-> 0, stable |-> 0, lastCount |-> 0,
                              phase |-> "scroll"]]
  ELSE IF ScrapeByQueriesLoopGuard(b.sq.i, b.sq.stable)
       THEN LET scrolled == ScrolledToBottom(dom, b.page)
                count == Len(Rendered(dom, scrolled))
            IN [b EXCEPT !.page = scrolled,
                         !.sq.i = b.sq.i + 1,
                         !.sq.stable = IF count = b.sq.lastCount THEN b.sq.stable + 1 ELSE 0,
                         !.sq.lastCount = count]
       ELSE [b EXCEPT !.acc = Collect(b.acc, Rendered(dom, b.page)),
                      !.sq.q = b.sq.q + 1,
                      !.sq.phase = "token"]

\* scrapeByQueries from entry to its return: every q takes at most its
\* start, MaxSubIterations turns and the extraction pass.
RunScrapeByQueries(dom, a, pg) ==
  LET Step(b) == ScrapeByQueriesStep(dom, b)
  IN RunLoop(Step, StartScrapeByQueries(a, pg), Len(domQueries) * (MaxSubIterations + 2) + 1)

(***************************************************************************)
(* main()                                                                  *)
(***************************************************************************)
\* A test of main() that lets every value through.
Always(c) == TRUE
\* if (creds)
HasCreds(c) == c # NoCreds

\* Tests of a count that let the threshold itself through as well.
UpToEnumerationThreshold(n) == n <= EnumerationThreshold
UpToDomQueryThreshold(n) == n <= DomQueryThreshold
UpToDomOnlyThreshold(n) == n <= DomOnlyThreshold
\* The test of the second gate with the threshold of the first.
BelowFirstThreshold(n) == n < EnumerationThreshold

\* if (companies.length < 2000)  (credential path)
BelowEnumerationThreshold(n) == n < EnumerationThreshold
\* if (companies.length < 4000)
BelowDomQueryThreshold(n) == n < DomQueryThreshold
\* if (companies.length < 2000)  (path without credentials)
BelowDomOnlyThreshold(n) == n < DomOnlyThreshold

Init ==
  /\ world \in Worlds
  /\ pc = "capture"
  /\ creds = NoCreds
  /\ companies = << >>
  /\ letterSet = << >>
  /\ bigramSet = << >>
  /\ domSet = << >>
  /\ fetch = NoFetch
  /\ acc = NoAcc
  /\ page = FreshPage(world.dom, "")
  /\ sp = NoSp
  /\ sq = NoSq
  /\ ins = 0
  /\ sink = << >>
  /\ exitCode = -1
  /\ calls = << >>
  /\ yields = << >>
  /\ cap = NoCap
  /\ VoteIdle

\* const creds = await captureAlgoliaCredentials(page); if (creds) ... else ...
CaptureAlgoliaCredentials ==
  /\ pc = "capture"
  /\ cap' = RunCapture(Traffic(world.creds))
  /\ creds' = cap'.promise.value
  /\ calls' = Append(calls, FnCapture)
  /\ pc' = IF HasCreds(creds') THEN "segmented" ELSE "scrapePage"
  /\ UNCHANGED <<voteVars, world, companies, letterSet, bigramSet, domSet, fetch, acc, page, sp, sq,
                 ins, sink, exitCode, yields>>

\* companies = await fetchAllFromAlgoliaSegmentedByBatch(creds)
FetchSegmented ==
  /\ pc = "segmented"
  /\ calls' = Append(calls, FnSegmented)
  /\ \E f \in {RunFetcher(world.index, FnSegmented, FacetDiscovery(world.index))} :
       /\ fetch' = Left(f)
       /\ pc' = AfterCall(f.status, "gate_enum")
       /\ IF f.status = "returned"
          THEN /\ companies' = RowsOfHits(f.dedup)
               /\ yields' = (FnSegmented :> Len(companies')) @@ yields
          ELSE UNCHANGED <<companies, yields>>
  /\ UNCHANGED <<voteVars, world, creds, letterSet, bigramSet, domSet, acc, page, sp, sq, ins, sink,
                 exitCode, cap>>

\* if (companies.length < 2000) {
EnumerationGate ==
  /\ pc = "gate_enum"
  /\ pc' = IF BelowEnumerationThreshold(Len(companies)) THEN "letters" ELSE "gate_dom"
  /\ UNCHANGED <<voteVars, world, creds, companies, letterSet, bigramSet, domSet, fetch, acc, page, sp,
                 sq, ins, sink, exitCode, calls, yields, cap>>

\* const letterSet = await fetchAllFromAlgoliaByLetters(creds)
FetchLetters ==
  /\ pc = "letters"
  /\ calls' = Append(calls, FnLetters)
  /\ \E f \in {RunFetcher(world.index, FnLetters, << >>)} :
       /\ fetch' = Left(f)
       /\ pc' = AfterCall(f.status, "bigrams")
       /\ IF f.status = "returned"
          THEN /\ letterSet' = RowsOfHits(f.dedup)
               /\ yields' = (FnLetters :> Len(letterSet')) @@ yields
          ELSE UNCHANGED <<letterSet, yields>>
  /\ UNCHANGED <<voteVars, world, creds, companies, bigramSet, domSet, acc, page, sp, sq, ins, sink,
                 exitCode, cap>>

\* const bigramSet = await fetchAllFromAlgoliaByQueries(creds, generateBigrams())
FetchBigrams ==
  /\ pc = "bigrams"
  /\ calls' = Append(calls, FnQueries)
  /\ \E f \in {RunFetcher(world.index, FnQueries, << >>)} :
       /\ fetch' = Left(f)
       /\ pc' = AfterCall(f.status, "merge_index")
       /\ IF f.status = "returned"
          THEN /\ bigramSet' = RowsOfHits(f.dedup)
               /\ yields' = (FnQueries :> Len(bigramSet')) @@ yields
          ELSE UNCHANGED <<bigramSet, yields>>
  /\ UNCHANGED <<voteVars, world, creds, companies, letterSet, domSet, acc, page, sp, sq, ins, sink,
                 exitCode, cap>>

\* for (const c of [...companies, ...letterSet, ...bigramSet]) map.set(c.profile_url, c)
\* companies = Array.from(map.values()) }
MergeIndexSets ==
  /\ pc = "merge_index"
  /\ companies' = MergeByProfileUrl(companies \o letterSet \o bigramSet)
  /\ pc' = "gate_dom"
  /\ UNCHANGED <<voteVars, world, creds, letterSet, bigramSet, domSet, fetch, acc, page, sp, sq, ins,
                 sink, exitCode, calls, yields, cap>>

\* if (companies.length < 4000) {
DomQueryGate ==
  /\ pc = "gate_dom"
  /\ pc' = IF BelowDomQueryThreshold(Len(companies)) THEN "scrapeByQueries" ELSE "insert"
  /\ UNCHANGED <<voteVars, world, creds, companies, letterSet, bigramSet, domSet, fetch, acc, page, sp,
                 sq, ins, sink, exitCode, calls, yields, cap>>

\* } else { companies = await scrapePage(page)
ScrapePage ==
  /\ pc = "scrapePage"
  /\ calls' = Append(calls, FnScrapePage)
  /\ \E b \in {RunScrapePage(world.dom, acc, page)} :
       /\ sp' = b.sp
       /\ acc' = b.acc
       /\ page' = b.page
       /\ pc' = AfterCall(b.status, "gate_dom_only")
       /\ IF b.status = "returned"
          THEN /\ companies' = MapValues(b.acc)
               /\ yields' = (FnScrapePage :> Len(companies')) @@ yields
          ELSE UNCHANGED <<companies, yields>>
  /\ UNCHANGED <<voteVars, world, creds, letterSet, bigramSet, domSet, fetch, sq, ins, sink, exitCode, cap>>

\* if (companies.length < 2000) {
DomOnlyGate ==
  /\ pc = "gate_dom_only"
  /\ pc' = IF BelowDomOnlyThreshold(Len(companies)) THEN "scrapeByQueries" ELSE "insert"
  /\ UNCHANGED <<voteVars, world, creds, companies, letterSet, bigramSet, domSet, fetch, acc, page, sp,
                 sq, ins, sink, exitCode, calls, yields, cap>>

\* const domSet = await scrapeByQueries(page, [...])  (either branch)
ScrapeByQueries ==
  /\ pc = "scrapeByQueries"
  /\ calls' = Append(calls, FnScrapeByQueries)
  /\ \E b \in {RunScrapeByQueries(world.dom, acc, page)} :
       /\ sq' = b.sq
       /\ acc' = b.acc
       /\ page' = b.page
       /\ pc' = AfterCall(b.status, "merge_dom")
       /\ IF b.status = "returned"
          THEN /\ domSet' = MapValues(b.acc)
               /\ yields' = (FnScrapeByQueries :> Len(domSet')) @@ yields
          ELSE UNCHANGED <<domSet, yields>>
  /\ UNCHANGED <<voteVars, world, creds, companies, letterSet, bigramSet, fetch, sp, ins, sink, exitCode, cap>>

\* for (const c of [...companies, ...domSet]) map.set(c.profile_url, c)
\* companies = Array.from(map.values()) }
MergeDomSet ==
  /\ pc = "merge_dom"
  /\ companies' = MergeByProfileUrl(companies \o domSet)
  /\ pc' = "insert"
  /\ UNCHANGED <<voteVars, world, creds, letterSet, bigramSet, domSet, fetch, acc, page, sp, sq, ins,
                 sink, exitCode, calls, yields, cap>>

\* console.log(...); await insertCompanies(companies): if (rows.length === 0) return
InsertCompanies ==
  /\ pc = "insert"
  /\ calls' = Append(calls, FnInsert)
  /\ ins' = 0
  /\ pc' = IF Len(companies) = 0 THEN "close" ELSE "insert_chunk"
  /\ UNCHANGED <<voteVars, world, creds, companies, letterSet, bigramSet, domSet, fetch, acc, page, sp,
                 sq, sink, exitCode, yields, cap>>

\* A chunk that takes all that is left of the rows.
ChunkFrom(rows, i) == SubSeq(rows, i + 1, Len(rows))

\* const chunk = rows.slice(i, i + 500)
ChunkOf(rows, i) == SubSeq(rows, i + 1, Min(Len(rows), i + ChunkSize))

\* One turn of `for (let i = 0; i < rows.length; i += 500)`: the upsert of
\* rows.slice(i, i + 500); `if (error) throw error`
InsertChunk ==
  /\ pc = "insert_chunk"
  /\ IF world.sinkFailsAt = Len(sink) + 1
     THEN /\ pc' = "rejected"
          /\ UNCHANGED <<ins, sink>>
     ELSE /\ sink' = Append(sink, ChunkOf(companies, ins))
          /\ ins' = ins + ChunkSize
          /\ pc' = IF ins + ChunkSize < Len(companies) THEN "insert_chunk" ELSE "close"
  /\ UNCHANGED <<voteVars, world, creds, companies, letterSet, bigramSet, domSet, fetch, acc, page, sp,
                 sq, exitCode, calls, yields, cap>>

\* await browser.close(); main() resolves and the process ends
BrowserClose ==
  /\ pc = "close"
  /\ pc' = "done"
  /\ exitCode' = 0
  /\ UNCHANGED <<voteVars, world, creds, companies, letterSet, bigramSet, domSet, fetch, acc, page, sp,
                 sq, ins, sink, calls, yields, cap>>

\* main().catch(err => { console.error(err); process.exit(1) })
MainCatch ==
  /\ pc = "rejected"
  /\ pc' = "exited"
  /\ exitCode' = 1
  /\ UNCHANGED <<voteVars, world, creds, companies, letterSet, bigramSet, domSet, fetch, acc, page, sp,
                 sq, ins, sink, calls, yields, cap>>

Next ==
  \/ CaptureAlgoliaCredentials
  \/ FetchSegmented
  \/ EnumerationGate
  \/ FetchLetters
  \/ FetchBigrams
  \/ MergeIndexSets
  \/ DomQueryGate
  \/ ScrapePage
  \/ DomOnlyGate
  \/ ScrapeByQueries
  \/ MergeDomSet
  \/ InsertCompanies
  \/ InsertChunk
  \/ BrowserClose
  \/ MainCatch

Spec == Init /\ [][Next]_vars

(***************************************************************************)
(* scrapePage, turn by turn: the call of main() without credentials, with  *)
(* every turn of the loop a step of its own.                               *)
(***************************************************************************)
InitScrapePage ==
  /\ world \in {w \in Worlds : w.creds = NoCreds}
  /\ pc = "scrapePage"
  /\ creds = NoCreds
  /\ companies = << >>
  /\ letterSet = << >>
  /\ bigramSet = << >>
  /\ domSet = << >>
  /\ fetch = NoFetch
  /\ acc = NoAcc
  /\ page = FreshPage(world.dom, "")
  /\ sp = NoSp
  /\ sq = NoSq
  /\ ins = 0
  /\ sink = << >>
  /\ exitCode = -1
  /\ calls = <<FnCapture>>
  /\ yields = << >>
  /\ cap = NoCap
  /\ VoteIdle

\* scrapePage up to its loop
ScrapePageEnter ==
  /\ pc = "scrapePage"
  /\ calls' = Append(calls, FnScrapePage)
  /\ \E b \in {StartScrapePage(acc, page)} :
       /\ sp' = b.sp
       /\ acc' = b.acc
       /\ page' = b.page
  /\ pc' = "sp_loop"
  /\ UNCHANGED <<voteVars, world, creds, companies, letterSet, bigramSet, domSet, fetch, sq, ins, sink,
                 exitCode, yields, cap>>

\* One turn of scrapePage's loop; the turn that leaves the loop returns the
\* accumulator's contents to main().
ScrapePageTurn ==
  /\ pc = "sp_loop"
  /\ \E b \in {ScrapePageStep(world.dom, [status |-> "running", sp |-> sp, acc |-> acc,
                                          page |-> page])} :
       /\ sp' = b.sp
       /\ acc' = b.acc
       /\ page' = b.page
       /\ IF b.status = "returned"
          THEN /\ companies' = MapValues(b.acc)
               /\ yields' = (FnScrapePage :> Len(companies')) @@ yields
               /\ pc' = "gate_dom_only"
          ELSE UNCHANGED <<companies, yields, pc>>
  /\ UNCHANGED <<voteVars, world, creds, letterSet, bigramSet, domSet, fetch, sq, ins, sink, exitCode,
                 calls, cap>>

NextScrapePage ==
  \/ ScrapePageEnter
  \/ ScrapePageTurn

SpecScrapePage == InitScrapePage /\ [][NextScrapePage]_vars

(***************************************************************************)
(* captureAlgoliaCredentials, event by event: the requests of the page and *)
(* the end of the 8-second window arrive one at a time, in any order.  The *)
(* listener stays registered after the promise is settled.                 *)
(***************************************************************************)
InitCapture ==
  /\ world = World(NoCreds, NoIndex, DefaultPage, 0)
  /\ pc = "capture"
  /\ creds = NoCreds
  /\ companies = << >>
  /\ letterSet = << >>
  /\ bigramSet = << >>
  /\ domSet = << >>
  /\ fetch = NoFetch
  /\ acc = NoAcc
  /\ page = FreshPage(world.dom, "")
  /\ sp = NoSp
  /\ sq = NoSq
  /\ ins = 0
  /\ sink = << >>
  /\ exitCode = -1
  /\ calls = << >>
  /\ yields = << >>
  /\ cap = NoCap
  /\ VoteIdle

\* main() calls captureAlgoliaCredentials and awaits its promise
CaptureCall ==
  /\ pc = "capture"
  /\ cap' = StartCapture
  /\ calls' = Append(calls, FnCapture)
  /\ pc' = "capture_await"
  /\ UNCHANGED <<voteVars, world, creds, companies, letterSet, bigramSet, domSet, fetch, acc, page, sp,
                 sq, ins, sink, exitCode, yields>>

\* the page sends a request
RequestObserved ==
  /\ cap.promise.state # "none"
  /\ cap.count < MaxEvents
  /\ \E req \in Requests : cap' = Deliver(cap, req)
  /\ UNCHANGED <<voteVars, world, pc, creds, companies, letterSet, bigramSet, domSet, fetch, acc, page,
                 sp, sq, ins, sink, exitCode, calls, yields>>

\* 8000 ms have passed since the call
WindowElapses ==
  /\ cap.timer = "armed"
  /\ cap.count < MaxEvents
  /\ cap' = Elapse(cap)
  /\ UNCHANGED <<voteVars, world, pc, creds, companies, letterSet, bigramSet, domSet, fetch, acc, page,
                 sp, sq, ins, sink, exitCode, calls, yields>>

\* const creds = await ...; if (creds)
CaptureSettled ==
  /\ pc = "capture_await"
  /\ cap.promise.state = "fulfilled"
  /\ creds' = cap.promise.value
  /\ pc' = IF HasCreds(creds') THEN "segmented" ELSE "scrapePage"
  /\ UNCHANGED <<voteVars, world, companies, letterSet, bigramSet, domSet, fetch, acc, page, sp, sq,
                 ins, sink, exitCode, calls, yields, cap>>

NextCapture ==
  \/ CaptureCall
  \/ RequestObserved
  \/ WindowElapses
  \/ CaptureSettled

SpecCapture == InitCapture /\ [][NextCapture]_vars

(***************************************************************************)
(* The index fetchers, request by request: main() from the call of the     *)
(* segmented fetcher to the merge of the index results, with every turn of *)
(* a fetcher's pagination loop a step of its own.                          *)
(***************************************************************************)
InitFetch ==
  /\ world \in {World(Bundle, idx, DefaultPage, 0) : idx \in SmallIndexes \cup OddIndexes \cup {PagedIndex}}
  /\ pc = "segmented"
  /\ creds = Bundle
  /\ companies = << >>
  /\ letterSet = << >>
  /\ bigramSet = << >>
  /\ domSet = << >>
  /\ fetch = NoFetch
  /\ acc = NoAcc
  /\ page = FreshPage(world.dom, "")
  /\ sp = NoSp
  /\ sq = NoSq
  /\ ins = 0
  /\ sink = << >>
  /\ exitCode = -1
  /\ calls = <<FnCapture>>
  /\ yields = << >>
  /\ cap = RunCapture(Traffic(Bundle))
  /\ VoteIdle

\* The call of a fetcher up to its loop (with the segmented fetcher, the
\* facet query and the test of its result).
FetchEnter ==
  /\ pc \in {"segmented", "letters", "bigrams"}
  /\ \E fn \in {CASE pc = "segmented" -> FnSegmented
                  [] pc = "letters"   -> FnLetters
                  [] OTHER            -> FnQueries} :
       /\ calls' = Append(calls, fn)
       /\ fetch' = StartFetch(fn, IF fn = FnSegmented THEN FacetDiscovery(world.index)
                                  ELSE << >>)
  /\ pc' = "fetch_loop"
  /\ UNCHANGED <<voteVars, world, creds, companies, letterSet, bigramSet, domSet, acc, page, sp, sq, ins,
                 sink, exitCode, yields, cap>>

\* One turn of `while (true)`: one page request.
FetchTurn ==
  /\ pc = "fetch_loop"
  /\ fetch.status = "running"
  /\ fetch' = FetchStep(world.index, fetch)
  /\ UNCHANGED <<voteVars, world, pc, creds, companies, letterSet, bigramSet, domSet, acc, page, sp, sq,
                 ins, sink, exitCode, calls, yields, cap>>

\* The fetcher is left: with its rows, by the throw of query(), or the
\* exploration stops following it.
FetchLeave ==
  /\ pc = "fetch_loop"
  /\ fetch.status # "running"
  /\ fetch' = Left(fetch)
  /\ pc' = AfterCall(fetch.status, CASE fetch.fn = FnSegmented -> "gate_enum"
                                     [] fetch.fn = FnLetters   -> "bigrams"
                                     [] OTHER                  -> "merge_index")
  /\ IF fetch.status = "returned"
     THEN \E rows \in {RowsOfHits(fetch.dedup)} :
            /\ companies' = IF fetch.fn = FnSegmented THEN rows ELSE companies
            /\ letterSet' = IF fetch.fn = FnLetters THEN rows ELSE letterSet
            /\ bigramSet' = IF fetch.fn = FnQueries THEN rows ELSE bigramSet
            /\ yields' = (fetch.fn :> Len(rows)) @@ yields
     ELSE UNCHANGED <<companies, letterSet, bigramSet, yields>>
  /\ UNCHANGED <<voteVars, world, creds, domSet, acc, page, sp, sq, ins, sink, exitCode, calls, cap>>

NextFetch ==
  \/ FetchEnter
  \/ FetchTurn
  \/ FetchLeave
  \/ EnumerationGate
  \/ MainCatch

SpecFetch == InitFetch /\ [][NextFetch]_vars


(***************************************************************************)
(* The merges of main() on their own: the lists are drawn from the record  *)
(* lists the sources can return, and the merge steps of main() are applied  *)
(* to them.  An index fetcher's list may hold a profile_url twice (two     *)
(* hits with different keys, see HitKey and HitSlug); the accumulator the   *)
(* DOM scrapers return is a Map keyed by href and holds each once.         *)
(***************************************************************************)
MaxListLen == 2

ResultRows == {HitToRow(HitOf("slug", k, tag)) : k \in 1..MaxSmall, tag \in {"", "second"}}

ResultLists == UNION {[1..n -> ResultRows] : n \in 0..MaxListLen}

AccumulatorLists ==
  {l \in ResultLists : \A i, j \in 1..Len(l) : l[i].profile_url = l[j].profile_url => i = j}

InitMerge ==
  /\ world = World(Bundle, NoIndex, DefaultPage, 0)
  /\ pc \in {"merge_index", "merge_dom"}
  /\ creds = Bundle
  /\ companies \in ResultLists
  /\ letterSet \in (IF pc = "merge_index" THEN ResultLists ELSE {<< >>})
  /\ bigramSet \in (IF pc = "merge_index" THEN {<< >>, <<HitToRow(HitOf("slug", MaxSmall, "by bigram"))>>} ELSE {<< >>})
  /\ domSet \in (IF pc = "merge_dom" THEN AccumulatorLists ELSE {<< >>})
  /\ fetch = NoFetch
  /\ acc = NoAcc
  /\ page = FreshPage(world.dom, "")
  /\ sp = NoSp
  /\ sq = NoSq
  /\ ins = 0
  /\ sink = << >>
  /\ exitCode = -1
  /\ calls = <<FnCapture, FnSegmented>>
  /\ yields = << >>
  /\ cap = RunCapture(Traffic(Bundle))
  /\ VoteIdle

NextMerge == MergeIndexSets \/ MergeDomSet

SpecMerge == InitMerge /\ [][NextMerge]_vars

(***************************************************************************)
(* main() with the two DOM scrapers step by step: every turn of            *)
(* scrapePage's loop, and in scrapeByQueries every query, every turn of a  *)
(* query's scroll-and-count loop and every extraction pass, is a step of   *)
(* its own.                                                                *)
(***************************************************************************)
\* scrapeByQueries up to `for (const q of queries)`
ScrapeByQueriesEnter ==
  /\ pc = "scrapeByQueries"
  /\ calls' = Append(calls, FnScrapeByQueries)
  /\ \E b \in {StartScrapeByQueries(acc, page)} :
       /\ sq' = b.sq
       /\ acc' = b.acc
       /\ page' = b.page
  /\ pc' = "sq_loop"
  /\ UNCHANGED <<voteVars, world, creds, companies, letterSet, bigramSet, domSet, fetch, sp, ins, sink,
                 exitCode, yields, cap>>

\* One step of scrapeByQueries; after the last query the accumulator's
\* contents are returned to main().
ScrapeByQueriesTurn ==
  /\ pc = "sq_loop"
  /\ \E b \in {ScrapeByQueriesStep(world.dom, [status |-> "running", sq |-> sq, acc |-> acc,
                                               page |-> page])} :
       /\ sq' = b.sq
       /\ acc' = b.acc
       /\ page' = b.page
       /\ IF b.status = "returned"
          THEN /\ domSet' = MapValues(b.acc)
               /\ yields' = (FnScrapeByQueries :> Len(domSet')) @@ yields
               /\ pc' = "merge_dom"
          ELSE UNCHANGED <<domSet, yields, pc>>
  /\ UNCHANGED <<voteVars, world, creds, companies, letterSet, bigramSet, fetch, sp, ins, sink, exitCode,
                 calls, cap>>

NextDom ==
  \/ CaptureAlgoliaCredentials
  \/ FetchSegmented
  \/ EnumerationGate
  \/ FetchLetters
  \/ FetchBigrams
  \/ MergeIndexSets
  \/ DomQueryGate
  \/ ScrapePageEnter
  \/ ScrapePageTurn
  \/ DomOnlyGate
  \/ ScrapeByQueriesEnter
  \/ ScrapeByQueriesTurn
  \/ MergeDomSet
  \/ InsertCompanies
  \/ InsertChunk
  \/ BrowserClose
  \/ MainCatch

SpecDom == Init /\ [][NextDom]_vars

(***************************************************************************)
(* The voting database (src/supabase/schema.sql).                          *)
(*                                                                         *)
(* A call of record_vote_and_update_elo is one transaction at the default  *)
(* isolation level (read committed): a statement sees what was committed   *)
(* before it started and the transaction's own changes; SELECT ... FOR     *)
(* UPDATE and UPDATE wait for the transaction holding the row's lock; an   *)
(* exception undoes everything the call did; its changes become visible    *)
(* to others when it commits.  companiesTable and votesTable hold the      *)
(* committed rows; what a running call has changed is kept with the call.  *)
(* Every statement of the function is a step, so that concurrent calls     *)
(* interleave statement by statement.                                      *)
(***************************************************************************)
\* Number of concurrent calls followed.
MaxCalls == 2
\* The clock is followed for this many half minutes.
MaxTime == 2
\* interval '1 minute', in the clock's unit of half a minute
OneMinute == 2
\* if recent_count >= 10
RateLimit == 10
\* k: 32 (Vote.tsx), k integer default 32 (schema.sql)
DefaultK == 32

\* SQL NULL, for ids, sessions and truth values.
SqlNull == "<sql null>"
\* a = b, a <> b and AND in SQL's three-valued logic
SqlEq(a, b) == IF a = SqlNull \/ b = SqlNull THEN SqlNull ELSE IF a = b THEN "true" ELSE "false"
SqlNe(a, b) == IF a = SqlNull \/ b = SqlNull THEN SqlNull ELSE IF a = b THEN "false" ELSE "true"
SqlAnd(x, y) ==
  IF x = "false" \/ y = "false" THEN "false"
  ELSE IF x = SqlNull \/ y = SqlNull THEN SqlNull
  ELSE "true"
\* plpgsql's `if <condition> then`: taken only when the condition is true
IsTrue(x) == x = "true"

\* lower(), as ILIKE compares
Lower(s) == IF s \in {"Active", "ACTIVE", "active"} THEN "active" ELSE s
\* status ilike 'Active' (the pattern has no wildcard)
ILike(s, pattern) == s # SqlNull /\ Lower(s) = Lower(pattern)

\* The order of uuid values, by which LEAST and GREATEST choose.
IdOrder == <<"c1", "c2", "c3", "c4", "c9", "o0", "o1", "o2", "o3", "o4", "o5", "o6", "o7",
             "o8", "o9", "o10">>
IdRank(id) == CHOOSE n \in 1..Len(IdOrder) : IdOrder[n] = id
Least(a, b) == IF IdRank(a) <= IdRank(b) THEN a ELSE b
Greatest(a, b) == IF IdRank(a) <= IdRank(b) THEN b ELSE a

\* A unique index over the columns as they are, left and right in the
\* order given.
VoteKeyAsGiven(v) == <<v.voter_session, v.left_company, v.right_company>>

\* votes_unique_per_session_pair:
\* (voter_session, LEAST(left_company, right_company), GREATEST(left_company, right_company))
VoteKey(v) ==
  <<v.voter_session, Least(v.left_company, v.right_company),
    Greatest(v.left_company, v.right_company)>>

\* Two rows conflict in the unique index when their keys are equal and hold
\* no NULL (NULLs are distinct in a unique index).
UniqueConflict(v, w) == v.voter_session # SqlNull /\ VoteKey(v) = VoteKey(w)

\* Elo ratings are numeric values that no statement of the function tests,
\* so they are kept as the expressions that produced them: the rating a
\* company had at the start, and elo_rating + k * (s - e) with
\* e = 1.0 / (1.0 + power(10, (other - own) / 400.0)).
NullRating == [null |-> TRUE]
InitialRating(id) == [initial |-> id]
ExpectedScore(own, other) == [own |-> own, other |-> other]
NewRating(elo_rating, k, s, e) == [elo_rating |-> elo_rating, k |-> k, s |-> s, e |-> e]

CompanyRow(status, rating, games) ==
  [status |-> status, elo_rating |-> rating, elo_games_count |-> games]

VoteRow(left, right, winner, session, at) ==
  [left_company |-> left, right_company |-> right, winner_company |-> winner,
   voter_session |-> session, created_at |-> at]

\* The arguments of a call.
Args(left, right, winner, k, session) ==
  [left_id |-> left, right_id |-> right, winner_id |-> winner, k |-> k, voter_session |-> session]

NoUpdates == [id \in {} |-> id]

\* A call that has not been made yet.
NoCall ==
  [pc |-> "idle", args |-> Args(SqlNull, SqlNull, SqlNull, DefaultK, SqlNull), now |-> 0,
   left_rating |-> NullRating, right_rating |-> NullRating, recent_count |-> 0,
   locks |-> {}, updates |-> NoUpdates, inserted |-> << >>, error |-> ""]

\* const [left, right] = pair; supabase.rpc('record_vote_and_update_elo', {...})
VoteRpc(pair, winnerId, sessionId) == Args(pair[1], pair[2], winnerId, DefaultK, sessionId)

\* The calls followed.  The function is granted to anon and authenticated,
\* so any arguments can arrive; the voting page votes on a pair of two
\* different Active companies for one of the two, with its session id.
CallMenu ==
  <<Args("c1", "c1", "c1", DefaultK, "s1"),      \* left and right the same
    Args("c1", "c2", "c4", DefaultK, "s1"),      \* winner neither
    Args("c1", "c3", "c1", DefaultK, "s1"),      \* right not Active
    Args("c3", "c1", "c1", DefaultK, "s1"),      \* left not Active
    Args("c1", "c9", "c1", DefaultK, "s1"),      \* right missing
    Args("c1", SqlNull, "c1", DefaultK, "s1"),   \* right NULL
    Args("c1", "c2", SqlNull, DefaultK, "s1"),   \* winner NULL
    Args("c1", "c2", "c1", DefaultK, SqlNull),   \* no session
    Args("c2", "c1", "c1", DefaultK, SqlNull),
    VoteRpc(<<"c1", "c2">>, "c1", "s2"),
    VoteRpc(<<"c1", "c4">>, "c1", "s1"),
    VoteRpc(<<"c1", "c2">>, "c1", "s1"),
    VoteRpc(<<"c1", "c2">>, "c2", "s1"),
    VoteRpc(<<"c2", "c1">>, "c1", "s1"),
    VoteRpc(<<"c2", "c1">>, "c2", "s1")>>

\* The calls of one run: any two of the menu, and the last of the menu for
\* every call beyond two.  Which call is which does not matter, so they
\* are taken in the menu's order.
CallChoices ==
  {ch \in [1..MaxCalls -> 1..Len(CallMenu)] :
     /\ \A c \in 1..(MaxCalls - 1) : ch[c] <= ch[c + 1]
     /\ \A c \in 3..MaxCalls : ch[c] = Len(CallMenu)}

\* The companies: c1 and c2 Active, c3 not, c4 Active in another spelling,
\* c9 not in the table; o0 .. o10 are the companies of earlier votes.
Others == {"o0", "o1", "o2", "o3", "o4", "o5", "o6", "o7", "o8", "o9", "o10"}
OtherOrder == <<"o1", "o2", "o3", "o4", "o5", "o6", "o7", "o8", "o9", "o10">>

\* The table after session s1 voted `prior` times, for o0 against o1, o2, ...
CompaniesAfter(prior) ==
  [id \in {"c1", "c2", "c3", "c4"} \cup Others |->
     CompanyRow(CASE id = "c3" -> "Inactive" [] id = "c4" -> "active" [] OTHER -> "Active",
                InitialRating(id),
                IF id = "o0" THEN prior
                ELSE IF id \in {OtherOrder[n] : n \in 1..prior} THEN 1 ELSE 0)]

VotesAfter(prior) == [n \in 1..prior |-> VoteRow("o0", OtherOrder[n], "o0", "s1", 0)]

(***************************************************************************)
(* record_vote_and_update_elo, statement by statement.                     *)
(***************************************************************************)
\* raise exception, or an error raised by a statement: the call ends, what
\* it changed is undone and its row locks are released.
Raise(c, message) ==
  txn' = [txn EXCEPT ![c] = [@ EXCEPT !.pc = "rejected", !.error = message, !.locks = {},
                                      !.updates = NoUpdates, !.inserted = << >>]]

\* A test of the two companies that lets equal ones through.
NeverSameCompany(left_id, right_id) == FALSE

\* if left_id = right_id then
SameCompany(left_id, right_id) == IsTrue(SqlEq(left_id, right_id))

\* if winner_id <> left_id and winner_id <> right_id then
WinnerIsNeither(winner_id, left_id, right_id) ==
  IsTrue(SqlAnd(SqlNe(winner_id, left_id), SqlNe(winner_id, right_id)))

\* where id = <id> and status ilike 'Active': the row the select finds
Found(id) == id \in DOMAIN companiesTable /\ ILike(companiesTable[id].status, "Active")

\* Whether another call holds the lock of a company's row.
LockedByOther(c, id) == \E d \in DOMAIN txn : d # c /\ id \in txn[d].locks

\* The row of a company as call c sees it: its own update, else the
\* committed row.
RowSeenBy(c, id) ==
  IF id \in DOMAIN txn[c].updates THEN txn[c].updates[id] ELSE companiesTable[id]

\* The company whose row lock call c is waiting for, if any.
WaitsFor(c) ==
  LET id == CASE txn[c].pc = "lock_left"  -> txn[c].args.left_id
              [] txn[c].pc = "lock_right" -> txn[c].args.right_id
              [] OTHER                    -> SqlNull
  IN IF id # SqlNull /\ Found(id) /\ LockedByOther(c, id) THEN {id} ELSE {}

\* supabase.rpc('record_vote_and_update_elo', ...): the transaction starts;
\* now() is its start time throughout.
RpcCall(c) ==
  /\ txn[c].pc = "idle"
  /\ txn' = [txn EXCEPT ![c] = [@ EXCEPT !.pc = "check_args", !.now = clock]]
  /\ UNCHANGED <<scraperVars, companiesTable, votesTable, clock>>

\* The two tests of the arguments.
CheckArgs(c) ==
  /\ txn[c].pc = "check_args"
  /\ \E a \in {txn[c].args} :
       IF SameCompany(a.left_id, a.right_id)
       THEN Raise(c, "Left and right company must be different")
       ELSE IF WinnerIsNeither(a.winner_id, a.left_id, a.right_id)
       THEN Raise(c, "Winner must be either left or right company")
       ELSE txn' = [txn EXCEPT ![c] = [@ EXCEPT !.pc = "rate_limit"]]
  /\ UNCHANGED <<scraperVars, companiesTable, votesTable, clock>>

\* select count(*) ... where v.voter_session = voter_session
\*   and v.created_at > now() - interval '1 minute'
RecentCount(session, now) ==
  Cardinality({n \in 1..Len(votesTable) :
                 /\ votesTable[n].voter_session = session
                 /\ votesTable[n].created_at > now - OneMinute})

\* if voter_session is not null then ... if recent_count >= 10 then raise
RateLimitCheck(c) ==
  /\ txn[c].pc = "rate_limit"
  /\ IF txn[c].args.voter_session = SqlNull
     THEN txn' = [txn EXCEPT ![c] = [@ EXCEPT !.pc = "lock_left"]]
     ELSE \E recent_count \in {RecentCount(txn[c].args.voter_session, txn[c].now)} :
            IF recent_count >= RateLimit
            THEN Raise(c, "Rate limited")
            ELSE txn' = [txn EXCEPT ![c] = [@ EXCEPT !.pc = "lock_left",
                                                     !.recent_count = recent_count]]
  /\ UNCHANGED <<scraperVars, companiesTable, votesTable, clock>>

\* select elo_rating into left_rating ... where id = left_id and status
\* ilike 'Active' for update: no row leaves left_rating NULL; a row locked
\* by another call is waited for.
LockLeft(c) ==
  /\ txn[c].pc = "lock_left"
  /\ \E id \in {txn[c].args.left_id} :
       IF ~Found(id)
       THEN txn' = [txn EXCEPT ![c] = [@ EXCEPT !.pc = "lock_right", !.left_rating = NullRating]]
       ELSE /\ ~LockedByOther(c, id)
            /\ txn' = [txn EXCEPT ![c] = [@ EXCEPT !.pc = "lock_right",
                                                   !.locks = @ \cup {id},
                                                   !.left_rating = companiesTable[id].elo_rating]]
  /\ UNCHANGED <<scraperVars, companiesTable, votesTable, clock>>

\* select elo_rating into right_rating ... for update
LockRight(c) ==
  /\ txn[c].pc = "lock_right"
  /\ \E id \in {txn[c].args.right_id} :
       IF ~Found(id)
       THEN txn' = [txn EXCEPT ![c] = [@ EXCEPT !.pc = "check_found", !.right_rating = NullRating]]
       ELSE /\ ~LockedByOther(c, id)
            /\ txn' = [txn EXCEPT ![c] = [@ EXCEPT !.pc = "check_found",
                                                   !.locks = @ \cup {id},
                                                   !.right_rating = companiesTable[id].elo_rating]]
  /\ UNCHANGED <<scraperVars, companiesTable, votesTable, clock>>

\* if left_rating is null or right_rating is null then raise
CheckFound(c) ==
  /\ txn[c].pc = "check_found"
  /\ IF txn[c].left_rating = NullRating \/ txn[c].right_rating = NullRating
     THEN Raise(c, "Company not active or not found")
     ELSE txn' = [txn EXCEPT ![c] = [@ EXCEPT !.pc = "update_left"]]
  /\ UNCHANGED <<scraperVars, companiesTable, votesTable, clock>>

\* case when winner_id = <id> then 1 else 0 end
Score(winner_id, id) == IF IsTrue(SqlEq(winner_id, id)) THEN 1 ELSE 0

\* update public.companies set elo_rating = elo_rating + k * (s - e),
\*   elo_games_count = elo_games_count + 1 where id = <id>
Updated(row, k, s, e) ==
  [row EXCEPT !.elo_rating = NewRating(row.elo_rating, k, s, e),
              !.elo_games_count = row.elo_games_count + 1]

\* e_left, s_left and the update of the left company
UpdateLeft(c) ==
  /\ txn[c].pc = "update_left"
  /\ \E a \in {txn[c].args} :
     \E e_left \in {ExpectedScore(txn[c].left_rating, txn[c].right_rating)} :
     \E s_left \in {Score(a.winner_id, a.left_id)} :
       txn' = [txn EXCEPT ![c] =
                 [@ EXCEPT !.pc = "update_right",
                           !.updates = (a.left_id :> Updated(RowSeenBy(c, a.left_id), a.k,
                                                            s_left, e_left)) @@ @]]
  /\ UNCHANGED <<scraperVars, companiesTable, votesTable, clock>>

\* e_right, s_right and the update of the right company
UpdateRight(c) ==
  /\ txn[c].pc = "update_right"
  /\ \E a \in {txn[c].args} :
     \E e_right \in {ExpectedScore(txn[c].right_rating, txn[c].left_rating)} :
     \E s_right \in {Score(a.winner_id, a.right_id)} :
       txn' = [txn EXCEPT ![c] =
                 [@ EXCEPT !.pc = "insert",
                           !.updates = (a.right_id :> Updated(RowSeenBy(c, a.right_id), a.k,
                                                             s_right, e_right)) @@ @]]
  /\ UNCHANGED <<scraperVars, companiesTable, votesTable, clock>>

\* insert into public.votes (...) values (left_id, right_id, winner_id,
\* voter_session): winner_company is not null; the unique index rejects a
\* row whose key a committed row has, and waits for a call that has
\* inserted such a row and has not ended yet.
InsertVote(c) ==
  /\ txn[c].pc = "insert"
  /\ \E a \in {txn[c].args} :
       IF a.winner_id = SqlNull
       THEN Raise(c, "null value in column winner_company violates not-null constraint")
       ELSE \E v \in {VoteRow(a.left_id, a.right_id, a.winner_id, a.voter_session, txn[c].now)} :
              IF \E n \in 1..Len(votesTable) : UniqueConflict(v, votesTable[n])
              THEN Raise(c, "duplicate key value violates unique constraint votes_unique_per_session_pair")
              ELSE /\ ~\E d \in DOMAIN txn :
                         /\ d # c /\ txn[d].inserted # << >>
                         /\ UniqueConflict(v, txn[d].inserted[1])
                   /\ txn' = [txn EXCEPT ![c] = [@ EXCEPT !.pc = "commit", !.inserted = <<v>>]]
  /\ UNCHANGED <<scraperVars, companiesTable, votesTable, clock>>

\* end of the function: the transaction commits, its updates and its vote
\* row become the committed ones, its locks are released.
Commit(c) ==
  /\ txn[c].pc = "commit"
  /\ companiesTable' = [id \in DOMAIN companiesTable |-> RowSeenBy(c, id)]
  /\ votesTable' = votesTable \o txn[c].inserted
  /\ txn' = [txn EXCEPT ![c] = [@ EXCEPT !.pc = "committed", !.locks = {},
                                         !.updates = NoUpdates, !.inserted = << >>]]
  /\ UNCHANGED <<scraperVars, clock>>

\* Two calls wait for each other's row lock: the server's deadlock check
\* ends one of them with an error.
DeadlockDetected(c) ==
  /\ \E d \in DOMAIN txn :
       /\ d # c
       /\ WaitsFor(c) \cap txn[d].locks # {}
       /\ WaitsFor(d) \cap txn[c].locks # {}
  /\ Raise(c, "deadlock detected")
  /\ UNCHANGED <<scraperVars, companiesTable, votesTable, clock>>

\* Half a minute passes.  Only the start of a call reads the clock, so it
\* is followed until the last call has started.
Tick ==
  /\ clock < MaxTime
  /\ \E c \in DOMAIN txn : txn[c].pc = "idle"
  /\ clock' = clock + 1
  /\ UNCHANGED <<scraperVars, companiesTable, votesTable, txn>>

\* The database with the votes of an earlier minute or of this one, and the
\* calls that are going to be made; the scraper is not part of it.
InitVote ==
  /\ world = World(NoCreds, NoIndex, DefaultPage, 0)
  /\ pc = "capture"
  /\ creds = NoCreds
  /\ companies = << >>
  /\ letterSet = << >>
  /\ bigramSet = << >>
  /\ domSet = << >>
  /\ fetch = NoFetch
  /\ acc = NoAcc
  /\ page = FreshPage(world.dom, "")
  /\ sp = NoSp
  /\ sq = NoSq
  /\ ins = 0
  /\ sink = << >>
  /\ exitCode = -1
  /\ calls = << >>
  /\ yields = << >>
  /\ cap = NoCap
  /\ \E prior \in {0, RateLimit - 1} :
       /\ companiesTable = CompaniesAfter(prior)
       /\ votesTable = VotesAfter(prior)
  /\ \E ch \in CallChoices : txn = [c \in 1..MaxCalls |-> [NoCall EXCEPT !.args = CallMenu[ch[c]]]]
  /\ clock = 0

NextVote ==
  \/ \E c \in 1..MaxCalls :
       \/ RpcCall(c)
       \/ CheckArgs(c)
       \/ RateLimitCheck(c)
       \/ LockLeft(c)
       \/ LockRight(c)
       \/ CheckFound(c)
       \/ UpdateLeft(c)
       \/ UpdateRight(c)
       \/ InsertVote(c)
       \/ Commit(c)
       \/ DeadlockDetected(c)
  \/ Tick

SpecVote == InitVote /\ [][NextVote]_vars
(***************************************************************************)
(* Properties.                                                             *)
(***************************************************************************)
\* Positions of main() between the two gates of the credential path.
EnumerationPcs == {"letters", "bigrams", "merge_index"}
\* Positions at scrapeByQueries and the merge of its result.
DomQueryPcs == {"scrapeByQueries", "merge_dom"}
\* Positions from the hand-over to the sink on.
SinkPcs == {"insert", "insert_chunk", "close", "done"}
\* Positions of a run that ended in a throw or is left in a loop.
AbortPcs == {"rejected", "exited", "pending"}

Keys(rows) == {rows[n].profile_url : n \in 1..Len(rows)}

\* C1: in the credential path the enumeration fetchers are invoked exactly
\* when the segmented fetcher returned fewer than 2000 records (1999 does,
\* 2000 does not): main() reaches and invokes the letter fetcher if and only
\* if the yield is below 2000, invokes the bigram fetcher next, as soon as the
\* letter fetcher has returned, and with a yield of 2000 or more invokes
\* neither; a run that ends normally has invoked both or neither.
C1_EnumerationBelow2000 ==
  /\ (pc \in EnumerationPcs \/ Called(FnLetters) \/ Called(FnQueries)) =>
       (Returned(FnSegmented) /\ yields[FnSegmented] < 2000)
  /\ (Returned(FnSegmented) /\ yields[FnSegmented] < 2000) =>
       (pc \in {"gate_enum", "letters"} \/ Called(FnLetters))
  /\ Returned(FnLetters) => (pc = "bigrams" \/ Called(FnQueries))
  /\ Called(FnQueries) => Returned(FnLetters)
  /\ (pc = "done" /\ Returned(FnSegmented)) =>
       /\ Called(FnLetters) <=> yields[FnSegmented] < 2000
       /\ Called(FnQueries) <=> yields[FnSegmented] < 2000

C1_Witness ==
  /\ Returned(FnSegmented) /\ yields[FnSegmented] = 1999
  /\ Called(FnLetters) /\ Called(FnQueries)
  /\ pc = "merge_index"

\* C2: in the credential path scrapeByQueries is invoked exactly when the
\* record count at the second gate is below 4000 (3999 does, 4000 does not):
\* it is reached only with fewer than 4000 records, and the sink is reached
\* without it only with 4000 or more.
C2_DomQueryBelow4000 ==
  creds # NoCreds =>
    /\ pc \in DomQueryPcs => Len(companies) < 4000
    /\ (pc \in SinkPcs /\ ~Called(FnScrapeByQueries)) => Len(companies) >= 4000
    /\ Called(FnScrapeByQueries) => pc \in {"merge_dom"} \cup SinkPcs \cup AbortPcs

C2_Witness ==
  /\ creds # NoCreds /\ pc = "merge_dom" /\ Called(FnScrapeByQueries)
  /\ Len(companies) = 3999

\* The run of the end-to-end scenario: the segmented fetcher returned 1500
\* records, and of the profile_urls of the records of the two enumeration
\* fetchers 900 are among those 1500 and 600 are new.  (The merge keeps the
\* segmented keys first in `companies`.)
EnumeratedRows == letterSet \o bigramSet
ScenarioRun ==
  /\ Returned(FnSegmented) /\ yields[FnSegmented] = 1500
  /\ Returned(FnQueries)
  /\ pc \in {"gate_dom"} \cup DomQueryPcs \cup SinkPcs
  /\ LET segKeys == Keys(SubSeq(companies, 1, 1500))
         enumKeys == Keys(EnumeratedRows)
     IN /\ Cardinality(segKeys) = 1500
        /\ Cardinality(enumKeys \cap segKeys) = 900
        /\ Cardinality(enumKeys \ segKeys) = 600

\* C3 as stated: in the scenario run the final set has exactly 2100 records
\* and the DOM Query Scraper is never invoked.
C3_Original ==
  (ScenarioRun /\ pc \in SinkPcs) =>
    (Len(companies) = 2100 /\ ~Called(FnScrapeByQueries))

\* C3 amended: in the scenario run the merge of the three index results has
\* exactly 2100 records; as 2100 < 4000 the DOM Query Scraper is invoked,
\* and the final set has those 2100 plus the records of the DOM scraper with
\* a profile_url not among them.
C3_ScenarioRunsDomQueries ==
  ScenarioRun =>
    /\ pc \in {"gate_dom", "scrapeByQueries", "merge_dom"} => Len(companies) = 2100
    /\ pc \in SinkPcs =>
         /\ Called(FnScrapeByQueries)
         /\ Len(companies) =
              2100 + Cardinality(Keys(domSet) \ Keys(SubSeq(companies, 1, 2100)))

C3_Witness ==
  /\ ScenarioRun /\ pc = "insert" /\ Called(FnScrapeByQueries)
  /\ Len(companies) = 2101

\* C4: without credentials scrapeByQueries is invoked exactly when scrapePage
\* returned fewer than 2000 records (1999 does, 2000 does not).
C4_DomOnlyBelow2000 ==
  (creds = NoCreds /\ Returned(FnScrapePage)) =>
    /\ (pc \in DomQueryPcs \/ Called(FnScrapeByQueries)) => yields[FnScrapePage] < 2000
    /\ yields[FnScrapePage] < 2000 =>
         (pc \in {"gate_dom_only", "scrapeByQueries"} \/ Called(FnScrapeByQueries))

C4_Witness ==
  /\ creds = NoCreds /\ Returned(FnScrapePage) /\ yields[FnScrapePage] = 1999
  /\ Called(FnScrapeByQueries) /\ pc = "merge_dom"

\* C5: with a captured bundle the segmented fetcher runs and scrapePage is
\* never invoked; without one scrapePage runs and no index fetcher is.
C5_StrategyByCredentials ==
  /\ (pc = "scrapePage" \/ Called(FnScrapePage)) => world.creds = NoCreds
  /\ (pc = "segmented" \/ Called(FnSegmented) \/ Called(FnLetters) \/ Called(FnQueries)) =>
       world.creds # NoCreds
  /\ pc \notin {"capture", "segmented", "scrapePage"} =>
       /\ creds = world.creds
       /\ Called(FnSegmented) <=> creds # NoCreds
       /\ Called(FnScrapePage) <=> creds = NoCreds

C5_Witness == pc = "done" /\ creds = NoCreds /\ Called(FnScrapePage) /\ Len(companies) > 0

\* C6 as stated: the rows handed to insertCompanies never hold two records
\* with the same profile_url.
C6_SinkRowsUnique ==
  pc \in SinkPcs => Cardinality(Keys(companies)) = Len(companies)

\* C7 as stated: every row an index fetcher returns has a non-empty name and
\* a profile_url resolved from a slug, permalink or url of its hit (the
\* prefix with nothing after it is the profile_url of a hit with none).
FetcherRowOk(r) == r.name # Empty /\ r.profile_url # ProfileUrlOf(Empty)
C7_FetcherRowsValid ==
  /\ \A n \in 1..Len(letterSet) : FetcherRowOk(letterSet[n])
  /\ \A n \in 1..Len(bigramSet) : FetcherRowOk(bigramSet[n])
  /\ pc = "gate_enum" => \A n \in 1..Len(companies) : FetcherRowOk(companies[n])

\* C8 as stated: a fetcher that failed with a non-success HTTP status does
\* not abort the run: main() is not rejected and the process does not exit
\* with a failure because of it.
C8_FetchFailureNotFatal ==
  fetch.status = "threw" => (pc \notin {"rejected", "exited"} /\ exitCode # 1)

\* C9: scrapePage's loop runs at most 3000 times, whatever the page does,
\* then scrapePage returns, and what it returns is the accumulator's contents.
C9_ScrapePageCapped ==
  /\ sp.i <= 3000
  /\ Called(FnScrapePage) => (Returned(FnScrapePage) /\ pc # "pending")
  /\ pc = "gate_dom_only" => companies = MapValues(acc)

C9_Witness ==
  /\ pc = "gate_dom_only" /\ sp.i = 3000
  /\ sp.stableIterations = 0 /\ sp.bottomHits = 0
  /\ Len(companies) = 3000

\* C10 as stated: the pagination loop of a segment has a maximum of its own,
\* so no fetcher is still asking for a further page of a segment where the
\* exploration stops following it (the code has no maximum: against an index
\* that always reports one page more, the loop goes on to whichever page
\* number it is followed to).
C10_PaginationCapped == fetch.status # "pending"

\* C11: scrapePage's loop is left before the cap of 3000 iterations only by a
\* turn that ends with more than 20 consecutive turns of unchanged accumulator
\* size AND more than 10 bottom hits (one of the two alone does not end it),
\* and a turn in which the accumulator's size changed leaves the counter of
\* stable turns at 0.
C11_ExitOnlyStableAtBottom ==
  [][pc = "sp_loop" =>
       /\ (pc' # "sp_loop" /\ sp'.i < 3000) =>
            (sp'.stableIterations > 20 /\ sp'.bottomHits > 10)
       /\ (sp'.i < 3000 /\ ~(sp'.stableIterations > 20 /\ sp'.bottomHits > 10)) =>
            pc' = "sp_loop"
       /\ MapSize(acc') # MapSize(acc) => sp'.stableIterations = 0]_vars

\* The loop was left early, on a page where the bottom had been hit more than
\* 10 times while the list was still growing.
C11_Witness ==
  /\ pc = "gate_dom_only" /\ sp.i < 3000
  /\ sp.stableIterations = 21 /\ sp.bottomHits > 21
  /\ sp.lastCollected = 12

\* A page on which nothing ever changes: scrolling does not move it and it
\* shows no "Load more" control.
StaticPage(dom) ==
  /\ ~CanScroll(dom, FreshPage(dom, ""))
  /\ ~LoadMoreVisible(dom, FreshPage(dom, ""))

\* C12: on a page where the scroll position never changes, no "Load more"
\* control exists and the collected count stays what it is, scrapePage's loop
\* is left by its break, in an iteration that is no earlier than the 21st and
\* no later than the 25th (sp.i counts the iterations completed before the
\* one that breaks): the loop is never about to run a 26th.
C12_StaticPageExit ==
  StaticPage(world.dom) =>
    /\ pc = "sp_loop" => sp.i < 25
    /\ pc = "gate_dom_only" =>
         /\ sp.i + 1 >= 21 /\ sp.i + 1 <= 25
         /\ sp.stableIterations > 20 /\ sp.bottomHits > 10

\* The loop was left in its 21st iteration, the count having been 0 throughout.
C12_Witness ==
  /\ StaticPage(world.dom) /\ pc = "gate_dom_only"
  /\ sp.i + 1 = 21 /\ sp.lastCollected = 0 /\ sp.bottomHits = 21

\* A request that qualifies as the specification words it: the url matches,
\* both headers are there, and the body is JSON with at least one sub-request,
\* in any position of the list, that has a non-empty index name.
HeadersPresent(req) ==
  /\ Field(req.headers, "x-algolia-application-id") # Empty
  /\ Field(req.headers, "x-algolia-api-key") # Empty
BodyPresent(req) == req.postData \notin {Empty, Null}
SubRequestNames(req) ==
  LET body == JSONParse(req.postData)
      requests == IF body.ok /\ body.v.t = "obj" THEN Prop(body.v, "requests") ELSE JUndefined
  IN IF requests.t # "arr" THEN {}
     ELSE {ToText(Prop(requests.items[n], "indexName")) :
             n \in {k \in 1..Len(requests.items) :
                      ~Falsy(Prop(requests.items[k], "indexName"))}}
QualifiesAsStated(req) ==
  /\ req.kind = "request" /\ UrlMatches(req.url)
  /\ HeadersPresent(req) /\ BodyPresent(req)
  /\ SubRequestNames(req) # {}
\* The promise is fulfilled with a bundle taken from the request.
FulfilledFrom(promise, req) ==
  /\ promise.state = "fulfilled"
  /\ promise.value.appId = Field(req.headers, "x-algolia-application-id")
  /\ promise.value.apiKey = Field(req.headers, "x-algolia-api-key")
  /\ promise.value.indexName \in SubRequestNames(req)
\* A step in which the closure sees one more event while the promise is pending.
EventWhilePending == cap.promise.state = "pending" /\ cap'.count = cap.count + 1

\* C13 as stated: the promise is never rejected and, once settled, never
\* changes; while it is pending, the end of the window settles it with null,
\* a qualifying request settles it with that request's bundle, and any other
\* request leaves it pending.
C13_FirstEventFixesResult ==
  [][/\ cap'.promise.state # "rejected"
     /\ cap.promise.state = "fulfilled" => cap'.promise = cap.promise
     /\ EventWhilePending =>
          IF cap'.last.kind = "timeout"
          THEN cap'.promise = [state |-> "fulfilled", value |-> NoCreds]
          ELSE IF QualifiesAsStated(cap'.last) THEN FulfilledFrom(cap'.promise, cap'.last)
          ELSE cap'.promise = cap.promise]_vars

\* C14 as stated: a request observed while the promise is pending yields a
\* bundle exactly when it qualifies (its index name in any position of the
\* sub-request list), and a bundle has its three parts non-empty.
C14_BundleIffQualifies ==
  [][/\ (EventWhilePending /\ cap'.last.kind = "request") =>
          ((cap'.promise.state = "fulfilled" /\ cap'.promise.value # NoCreds)
             <=> QualifiesAsStated(cap'.last))
     /\ cap'.promise.value # NoCreds =>
          /\ cap'.promise.value.appId # Empty
          /\ cap'.promise.value.apiKey # Empty
          /\ cap'.promise.value.indexName # Empty]_vars

\* A request with an unparseable body, a missing header or no body.
Malformed(req) ==
  /\ req.kind = "request"
  /\ ~HeadersPresent(req) \/ ~BodyPresent(req) \/ ~JSONParse(req.postData).ok

\* C15 as stated: a malformed request leaves the promise as it is, and a
\* qualifying request observed after a malformed one, the promise still
\* pending, settles the promise with its bundle.
C15_MalformedIgnored ==
  [][EventWhilePending =>
       /\ Malformed(cap'.last) => cap'.promise = cap.promise
       /\ (Malformed(cap.last) /\ QualifiesAsStated(cap'.last)) =>
            FulfilledFrom(cap'.promise, cap'.last)]_vars

\* C16: whenever the facet query gives no facet values, be it that it
\* succeeded without facets, that it was answered with a non-success status
\* or that fetch() rejected, the segmented fetcher returns an empty list,
\* does not throw, and has issued no page request.
C16_NoFacetsNoRequests ==
  LET facetsResp == Respond(world.index, FacetRequest)
  IN (facetsResp.rejected \/ ~facetsResp.ok \/ Len(facetsResp.facets) = 0) =>
       /\ Called(FnSegmented) => (Returned(FnSegmented) /\ yields[FnSegmented] = 0)
       /\ pc = "gate_enum" =>
            /\ fetch.fn = FnSegmented /\ fetch.status = "returned" /\ fetch.nreq = 0
            /\ companies = << >>

\* The segmented fetcher has returned from an index that has facet values
\* and companies under them, but whose facet query failed.
C16_Witness ==
  /\ pc = "gate_enum" /\ fetch.fn = FnSegmented /\ fetch.nreq = 0
  /\ ~Respond(world.index, FacetRequest).ok
  /\ world.index.facets # << >> /\ Len(Respond(world.index, BatchRequest("W24", 0)).hits) > 0

\* C17: a page request answered with a non-success status aborts the fetch:
\* the fetcher throws to its caller, which has no rows from it, and issues no
\* further request.
C17_FailedPageAborts ==
  [][(pc = "fetch_loop" /\ fetch.nreq > 0 /\ ~Respond(world.index, fetch.last).ok) =>
       /\ fetch.status = "threw"
       /\ fetch'.nreq = fetch.nreq /\ fetch'.last = fetch.last
       /\ pc' \in {"fetch_loop", "rejected"}
       /\ ~Returned(fetch.fn)' /\ companies' = companies
       /\ letterSet' = letterSet /\ bigramSet' = bigramSet]_vars

\* The letter fetcher threw at its second request, the first having brought hits.
C17_Witness ==
  /\ pc = "rejected" /\ fetch.fn = FnLetters /\ fetch.status = "threw"
  /\ fetch.nreq = 2 /\ MapSize(fetch.dedup) > 0
  /\ ~Respond(world.index, fetch.last).ok /\ ~Respond(world.index, fetch.last).rejected

\* The records of `final` are those of `sources`, one per profile_url, each
\* from the last of the sources that has its profile_url.
RowSet(rows) == {rows[n] : n \in 1..Len(rows)}
KeptFromLatest(final, sources) ==
  \E K \in {[s \in 1..Len(sources) |-> Keys(sources[s])]} :
  \E R \in {[s \in 1..Len(sources) |-> RowSet(sources[s])]} :
    LET Latest(k) == CHOOSE s \in 1..Len(sources) :
                       k \in K[s] /\ \A t \in (s + 1)..Len(sources) : k \notin K[t]
    IN /\ Keys(final) = UNION {K[s] : s \in 1..Len(sources)}
       /\ Len(final) = Cardinality(Keys(final))
       /\ \A n \in 1..Len(final) : final[n] \in R[Latest(final[n].profile_url)]

\* C18: a merge keeps, for every profile_url, one record, and that record is
\* from the source applied last among those that produced the profile_url:
\* in the order segmented, letters, bigrams in the merge of the index
\* results, and with the DOM query scraper's records after all that was
\* gathered before.
C18_LatestSourceWins ==
  [][/\ pc = "merge_index" => KeptFromLatest(companies', <<companies, letterSet, bigramSet>>)
     /\ pc = "merge_dom" => KeptFromLatest(companies', <<companies, domSet>>)]_vars

\* Company 601 was found under a facet value and again by the letter a; the
\* merged set has the letter fetcher's record of it.
C18_Witness ==
  /\ ScenarioRun /\ pc = "gate_dom"
  /\ companies[601].profile_url = ProfileUrlOf(Slug(601))
  /\ companies[601].one_liner = <<"by letter">>
  /\ companies[1].one_liner = Null

\* C19 as stated: after a page of hits went into a fetcher's key-to-hit map,
\* the map holds, for the key of every hit of the page, the hit of the page
\* that came last with that key, whatever it held for the key before.
C19_LaterHitReplaces ==
  [][(pc = "fetch_loop" /\ fetch'.nreq = fetch.nreq + 1 /\ fetch'.status # "threw") =>
       LET hits == Respond(world.index, fetch'.last).hits
       IN \A n \in 1..Len(hits) :
            (\A m \in (n + 1)..Len(hits) : HitKey(hits[m]) # HitKey(hits[n])) =>
              /\ MapHas(fetch'.dedup, HitKey(hits[n]))
              /\ fetch'.dedup.val[HitKey(hits[n])] = hits[n]]_vars

\* C20 as stated: the list an index fetcher returns has at most one record
\* per profile_url.
C20_FetcherRowsUnique ==
  /\ pc = "gate_enum" => Cardinality(Keys(companies)) = Len(companies)
  /\ Cardinality(Keys(letterSet)) = Len(letterSet)
  /\ Cardinality(Keys(bigramSet)) = Len(bigramSet)

\* The absolute URL the specification gives an identifier: an absolute URL
\* as it stands, /companies/<slug> and <slug> under the site's host.
AbsoluteTokens == {Host, "https://cdn.example"}
NormalisedAsStated(id) ==
  IF id[1] \in AbsoluteTokens THEN id
  ELSE IF id[1] = CompaniesPath THEN <<Host>> \o id
  ELSE <<Host, CompaniesPath>> \o id

\* C21 as stated: when an index fetcher maps its hits to records, the record
\* of every named hit has the normalised form of the hit's identifier as its
\* profile_url: /companies/<slug> and <slug> give
\* https://www.ycombinator.com/companies/<slug>, an absolute URL is kept.
C21_ProfileUrlNormalised ==
  [][(pc = "fetch_loop" /\ fetch.status = "returned" /\ fetch.fn = FnSegmented) =>
       LET allHits == MapValues(fetch.dedup)
       IN \A n \in 1..Len(allHits) :
            (HitKey(allHits[n]) # Empty /\ HitToRow(allHits[n]).name # Empty) =>
              \E r \in 1..Len(companies') :
                /\ companies'[r].name = HitToRow(allHits[n]).name
                /\ companies'[r].one_liner = HitToRow(allHits[n]).one_liner
                /\ companies'[r].profile_url = NormalisedAsStated(HitKey(allHits[n]))]_vars

\* C22 as stated: a list of records merged with itself gives the same set of
\* records.
C22_MergeIdempotent ==
  [][/\ (pc = "merge_index" /\ letterSet = companies /\ bigramSet = << >>) =>
          RowSet(companies') = RowSet(companies)
     /\ (pc = "merge_dom" /\ domSet = companies) =>
          RowSet(companies') = RowSet(companies)]_vars

\* C23: merging two lists that share no profile_url gives the same set of
\* records in either order (and the same holds for the three lists of the
\* first merge, taken in the reverse order).
C23_MergeCommutesOnDisjointKeys ==
  [][/\ (pc = "merge_dom" /\ Keys(companies) \cap Keys(domSet) = {}) =>
          RowSet(companies') = RowSet(MergeByProfileUrl(domSet \o companies))
     /\ (pc = "merge_index" /\ Keys(companies) \cap Keys(letterSet) = {}
           /\ Keys(companies) \cap Keys(bigramSet) = {}
           /\ Keys(letterSet) \cap Keys(bigramSet) = {}) =>
          RowSet(companies') = RowSet(MergeByProfileUrl(bigramSet \o letterSet \o companies))]_vars

\* A list with a record of company 1 was merged with the record of company 2
\* that the DOM query scraper returned: the merged list has both.
C23_Witness ==
  /\ pc = "insert" /\ Len(domSet) = 1 /\ Len(companies) = 2
  /\ companies[1].profile_url = ProfileUrlOf(Slug(1))
  /\ companies[1].one_liner = <<"second">>
  /\ companies[2] = domSet[1]
  /\ domSet[1].profile_url = ProfileUrlOf(Slug(2))

\* The order the specification gives the 36 tokens: the vowels, the other
\* letters, the digits.
Vowels == {"a", "e", "i", "o", "u"}
IsVowel(t) == t \in Vowels
IsConsonant(t) == t \notin Vowels
TokenOrder ==
  SelectSeq(SubSeq(letters, 1, 26), IsVowel) \o SelectSeq(SubSeq(letters, 1, 26), IsConsonant)
    \o SubSeq(letters, 27, 36)

AccKeys(a) == IF "absent" \in DOMAIN a THEN {} ELSE DOMAIN a.val
AccSize(a) == IF "absent" \in DOMAIN a THEN 0 ELSE MapSize(a)

\* C24: on a page with a search input, every step of scrapeByQueries'
\* loops is one of: typing the next token of the order vowels, other
\* letters, digits (the tokens are taken one by one, from the first to the
\* 36th); a scroll-and-count turn, taken only after fewer than 80 turns and
\* with the visible-anchor count unchanged in fewer than 5 consecutive
\* checks, which counts one more unchanged check or starts counting anew;
\* or, as soon as one of the two limits is reached, the one extraction pass
\* into the accumulator, which moves on to the next token.  Nothing else
\* changes the accumulator.
C24_QueryLoopBounded ==
  [][(pc = "sq_loop" /\ world.dom.search) =>
       /\ sq.i <= MaxSubIterations /\ sq.stable <= QueryStableThreshold
       /\ sq.q \in 1..37
       /\ sq'.q \in {sq.q, sq.q + 1}
       /\ (sq.phase = "token" /\ sq.q <= 36) =>
            /\ sq'.q = sq.q /\ sq'.phase = "scroll" /\ sq'.i = 0 /\ sq'.stable = 0
            /\ page'.query = TokenOrder[sq.q]
            /\ acc' = acc
       /\ (sq.phase = "token" /\ sq.q = 37) => (pc' = "merge_dom" /\ acc' = acc)
       /\ (sq.phase = "scroll" /\ sq.i < MaxSubIterations /\ sq.stable < QueryStableThreshold) =>
            /\ sq'.q = sq.q /\ sq'.phase = "scroll" /\ sq'.i = sq.i + 1
            /\ sq'.lastCount = Len(Rendered(world.dom, page'))
            /\ sq'.stable = (IF sq'.lastCount = sq.lastCount THEN sq.stable + 1 ELSE 0)
            /\ page'.query = page.query
            /\ acc' = acc
       /\ (sq.phase = "scroll" /\ (sq.i = MaxSubIterations \/ sq.stable = QueryStableThreshold)) =>
            /\ sq'.q = sq.q + 1 /\ sq'.phase = "token"
            /\ page' = page
            /\ acc' = Collect(acc, Rendered(world.dom, page))]_vars

\* On the page that grows with every scroll the token a went through 80
\* turns without a stable count and its extraction pass took the 81 records
\* then visible; the last token, 9, has just seen its fifth unchanged count.
C24_Witness ==
  /\ pc = "sq_loop" /\ world.dom = GrowingPage
  /\ sq.q = 36 /\ sq.phase = "scroll" /\ page.query = "9"
  /\ sq.stable = QueryStableThreshold /\ sq.i = QueryStableThreshold
  /\ MapSize(acc) = MaxSubIterations + 1

\* C25: on a page without a search input scrapeByQueries types no token,
\* runs no scroll-and-count turn and no extraction pass, and returns the
\* accumulator's contents as they were when it was called.
C25_NoSearchInputNoTokens ==
  [][/\ (pc = "scrapeByQueries" /\ ~world.dom.search) =>
          AccKeys(acc') = AccKeys(acc) /\ AccSize(acc') = AccSize(acc)
     /\ (pc = "sq_loop" /\ ~world.dom.search) =>
          /\ sq.phase = "token" /\ sq'.phase = "token"
          /\ sq'.i = 0 /\ sq'.stable = 0
          /\ page' = page /\ page.query = ""
          /\ acc' = acc
          /\ pc' = "merge_dom" => domSet' = MapValues(acc)]_vars

\* scrapePage found companies on a page without a search input, and
\* scrapeByQueries has returned the same records after passing all tokens.
C25_Witness ==
  /\ pc = "merge_dom" /\ ~world.dom.search
  /\ Returned(FnScrapePage) /\ Returned(FnScrapeByQueries)
  /\ Len(companies) > 0 /\ domSet = companies
  /\ sq.q = 37 /\ sq.i = 0 /\ page.query = "" /\ page.scroll = 0

\* C28: the initialisation at the start of scrapeByQueries leaves an
\* existing accumulator as it is; no step of either DOM scraper removes a
\* key from the accumulator or lowers its size; and what scrapeByQueries
\* returns after scrapePage has every profile_url scrapePage returned.
C28_AccumulatorOnlyGrows ==
  [][/\ AccKeys(acc) \subseteq AccKeys(acc')
     /\ AccSize(acc) <= AccSize(acc')
     /\ (pc \in {"scrapePage", "scrapeByQueries"} /\ "absent" \notin DOMAIN acc) => acc' = acc
     /\ (pc = "sq_loop" /\ pc' = "merge_dom" /\ Returned(FnScrapePage)) =>
          Keys(companies) \subseteq Keys(domSet')]_vars

\* scrapePage returned the one record the growing page showed, and
\* scrapeByQueries has returned it together with those it found itself.
C28_Witness ==
  /\ pc = "merge_dom" /\ Returned(FnScrapePage)
  /\ Len(companies) > 0 /\ Len(domSet) > Len(companies)
  /\ Keys(companies) \subseteq Keys(domSet)

RECURSIVE Flat(_, _)
Flat(chunks, n) == IF n = 0 THEN << >> ELSE Flat(chunks, n - 1) \o chunks[n]

\* C26: once insertCompanies is called, the chunks the sink has taken are
\* the records of the final set from its start, in order and without gap or
\* repetition, each chunk of 500 records except possibly the last of the
\* set; after a normal return they are the whole set.  A run whose sink
\* rejects its k-th call has delivered k - 1 chunks and no more, goes to the
\* rejection of main() and ends with exit status 1; with an empty set no
\* chunk is sent and the run ends normally even if the sink would reject.
C26_ChunkedInsert ==
  Called(FnInsert) =>
    \E all \in {Flat(sink, Len(sink))} :
      /\ \A n \in 1..Len(sink) :
           /\ Len(sink[n]) \in 1..500
           /\ n < Len(sink) => Len(sink[n]) = 500
      /\ Len(all) <= Len(companies)
      /\ all = SubSeq(companies, 1, Len(all))
      /\ pc \in {"insert_chunk", "close", "done", "rejected", "exited"}
      /\ pc = "insert_chunk" => Len(all) < Len(companies) /\ Len(all) = 500 * Len(sink)
      /\ pc \in {"close", "done"} => all = companies
      /\ pc = "done" => exitCode = 0
      /\ world.sinkFailsAt > 0 => Len(sink) < world.sinkFailsAt
      /\ pc \in {"rejected", "exited"} =>
           /\ world.sinkFailsAt = Len(sink) + 1
           /\ Len(all) = 500 * Len(sink) /\ Len(all) < Len(companies)
      /\ pc = "exited" => exitCode = 1
      /\ Len(companies) = 0 => sink = << >> /\ pc \in {"close", "done"}

\* The sink took the first 500 of 4000 records and rejected the second
\* chunk: nothing more was sent and the process ended with status 1.
C26_Witness ==
  /\ pc = "exited" /\ exitCode = 1 /\ Called(FnInsert)
  /\ world.sinkFailsAt = 2
  /\ Len(companies) = 4000
  /\ Len(sink) = 1 /\ sink[1] = SubSeq(companies, 1, 500)

\* The segment a page request is for.
SegmentOf(req) == IF req.facetFilter # "" THEN req.facetFilter ELSE req.query
\* Whether a response ends its segment: the next page number has reached
\* the reported nbPages, a missing or zero nbPages counting as 1.
LastPage(req, resp) == req.page + 1 >= (IF resp.nbPages = 0 THEN 1 ELSE resp.nbPages)

\* C27: the first page request of a fetcher is for page 0 of its first
\* segment; every later request follows the answered request before it,
\* with the next page of the same segment if that answer left pages to
\* fetch, and with page 0 of the next segment of the enumeration if it was
\* the segment's last page; the fetcher returns only after the last page of
\* its last segment.  (So a segment that reports n pages throughout gets
\* the n requests for its pages 0 to n - 1.)
C27_PagesInOrder ==
  [][(pc = "fetch_loop" /\ fetch.status = "running") =>
       \E segments \in {Segments(fetch)} :
         /\ fetch'.status # "pending" =>
              /\ fetch'.nreq = fetch.nreq + 1
              /\ IF fetch.nreq = 0
                 THEN fetch'.last.page = 0 /\ SegmentOf(fetch'.last) = segments[1]
                 ELSE IF LastPage(fetch.last, Respond(world.index, fetch.last))
                 THEN /\ fetch'.last.page = 0
                      /\ \E n \in {fetch.segIdx - 1} :
                           /\ n \in 1..(Len(segments) - 1)
                           /\ SegmentOf(fetch.last) = segments[n]
                           /\ SegmentOf(fetch'.last) = segments[n + 1]
                 ELSE /\ fetch'.last.page = fetch.last.page + 1
                      /\ SegmentOf(fetch'.last) = SegmentOf(fetch.last)
         /\ fetch'.status = "returned" =>
              /\ SegmentOf(fetch'.last) = segments[Len(segments)]
              /\ LastPage(fetch'.last, Respond(world.index, fetch'.last))]_vars

\* The letter fetcher has asked for the pages 0, 1 and 2 of the letter a,
\* which reports 3 pages, and then for page 0 of b.
C27_Witness ==
  /\ pc = "fetch_loop" /\ fetch.fn = FnLetters /\ fetch.status = "running"
  /\ fetch.nreq = 4 /\ fetch.last = QueryRequest("b", 0)
  /\ Respond(world.index, QueryRequest("a", 2)).nbPages = 3
  /\ Respond(world.index, fetch.last).nbPages = 0
  /\ MapSize(fetch.dedup) = 2 * HitsPerPage + 1

(***************************************************************************)
(* The voting function.                                                    *)
(***************************************************************************)
\* A company that is in the table with the status Active, compared without
\* regard to case as `ilike 'Active'` compares.
IsActiveCompany(id) ==
  /\ id \in DOMAIN companiesTable
  /\ companiesTable[id].status \in {"Active", "active", "ACTIVE"}

\* The arguments with which a call succeeds: two different companies, the
\* winner one of the two, both in the table and Active.
ValidVote(a) ==
  /\ a.left_id # SqlNull /\ a.right_id # SqlNull
  /\ a.left_id # a.right_id
  /\ a.winner_id \in {a.left_id, a.right_id}
  /\ IsActiveCompany(a.left_id) /\ IsActiveCompany(a.right_id)

Ends(c, how) == txn[c].pc # how /\ txn'[c].pc = how

\* The committed tables after a successful call with the arguments a: one
\* more vote row, one more game for a's two companies, every other company
\* as it was.
OneVoteRecorded(a) ==
  /\ Len(votesTable') = Len(votesTable) + 1
  /\ SubSeq(votesTable', 1, Len(votesTable)) = votesTable
  /\ \E v \in {votesTable'[Len(votesTable')]} :
       /\ v.left_company = a.left_id /\ v.right_company = a.right_id
       /\ v.winner_company = a.winner_id /\ v.voter_session = a.voter_session
  /\ DOMAIN companiesTable' = DOMAIN companiesTable
  /\ \A id \in DOMAIN companiesTable :
       IF id \in {a.left_id, a.right_id}
       THEN /\ companiesTable'[id].elo_games_count = companiesTable[id].elo_games_count + 1
            /\ companiesTable'[id].status = companiesTable[id].status
       ELSE companiesTable'[id] = companiesTable[id]

\* C29: record_vote_and_update_elo rejects a call whose left and right
\* companies are the same, whose winner is neither of the two, or in which
\* a company is missing or not Active: such a call never succeeds (a
\* winner that is NULL is rejected by the insert, the others by the tests
\* at the start).  A step in which a call is rejected, for
\* whatever reason, leaves every company row and every vote row as it was;
\* the rows change only in the step in which a call succeeds, and that
\* step adds exactly one vote row, with the call's arguments, and adds 1 to
\* the games count of exactly the call's two companies.
C29_RejectsOrRecordsOneVote ==
  [][/\ \A c \in DOMAIN txn :
          /\ txn'[c].pc = "committed" => ValidVote(txn[c].args)
          /\ Ends(c, "rejected") => UNCHANGED <<companiesTable, votesTable>>
          /\ Ends(c, "committed") => OneVoteRecorded(txn[c].args)
     /\ (\A c \in DOMAIN txn : ~Ends(c, "committed")) => UNCHANGED <<companiesTable, votesTable>>
    ]_vars

\* Of two calls made when the session had voted 9 times within the minute,
\* one has succeeded, which made the 10 rows, and the other has been
\* rejected by the rate limit after it.
C29_Witness ==
  \E c, d \in DOMAIN txn :
    /\ txn[c].pc = "committed" /\ txn[d].pc = "rejected" /\ txn[d].error = "Rate limited"
    /\ Len(votesTable) = RateLimit
    /\ companiesTable[txn[c].args.left_id].elo_games_count = 1
    /\ companiesTable[txn[c].args.right_id].elo_games_count = 1

\* The unordered pair of a vote row.
PairOf(v) == {v.left_company, v.right_company}

\* C30: for a non-null voter session there is at most one vote row per
\* unordered pair of companies, whichever of the two is left and whichever
\* right, however the concurrent calls interleave.
C30_OneVotePerSessionAndPair ==
  \A m, n \in 1..Len(votesTable) :
    (/\ votesTable[m].voter_session # SqlNull
     /\ votesTable[m].voter_session = votesTable[n].voter_session
     /\ PairOf(votesTable[m]) = PairOf(votesTable[n])) => m = n

\* The session has voted on c1 against c2, and its second vote, on c2
\* against c1, has been rejected by the unique index.
C30_Witness ==
  \E c, d \in DOMAIN txn :
    /\ txn[c].pc = "committed" /\ txn[d].pc = "rejected"
    /\ txn[d].error = "duplicate key value violates unique constraint votes_unique_per_session_pair"
    /\ txn[c].args.voter_session = txn[d].args.voter_session
    /\ txn[c].args.left_id = txn[d].args.right_id
    /\ txn[c].args.right_id = txn[d].args.left_id
    /\ \E n \in 1..Len(votesTable) : PairOf(votesTable[n]) = {"c1", "c2"}

\* The vote rows of a session recorded within the minute that ends at t.
RowsInWindow(session, t) ==
  {n \in 1..Len(votesTable) :
     /\ votesTable[n].voter_session = session
     /\ votesTable[n].created_at > t - OneMinute
     /\ votesTable[n].created_at <= t}

\* C31: a voter session never has more than 10 vote rows recorded within
\* any one-minute window, however the concurrent calls made with that
\* session interleave.
C31_RateLimitHolds ==
  \A n \in 1..Len(votesTable) :
    votesTable[n].voter_session # SqlNull =>
      \A t \in 0..MaxTime :
        Cardinality(RowsInWindow(votesTable[n].voter_session, t)) <= RateLimit

\* C32: concurrent calls cannot deadlock on the company row locks: no two
\* calls ever each hold one row lock and wait for the other's.
C32_NoDeadlock ==
  \A c, d \in DOMAIN txn :
    c # d => ~(/\ WaitsFor(c) \cap txn[d].locks # {}
               /\ WaitsFor(d) \cap txn[c].locks # {})

====
